---- MODULE Spec2Model ----
(***************************************************************************)
(* Host-side model of the wavefront path tracer driver                     *)
(* (App/Renderers/PT/ptrenderer.cpp).                                      *)
(*                                                                         *)
(* Spec      : the driver as the host sees it: SetOutput / ResizeWorkingSet*)
(*             / SetNumBounces / Clear and Render, one step per statement  *)
(*             of Render, each step appending the command it enqueues to   *)
(*             the in-order queue `log`.                                   *)
(* SpecFrame : the same Render steps, executed against the contents of the *)
(*             device buffers (the in-order queue makes the effect of a    *)
(*             command visible to every later command, so a command is     *)
(*             applied when it is enqueued).                               *)
(***************************************************************************)
EXTENDS Integers, Sequences, FiniteSets, TLC

(***************************************************************************)
(* Bounds of the model.                                                    *)
(***************************************************************************)
MaxDim == 1
MaxOutDim == 2
NumOutputTypes == 3
MaxBounces == 2
MaxFrames == 1
MaxResizes == 2
MaxOutResizes == 2
MaxPixels == 2
MaxBenchPasses == 2
MaxIsectBufs == 6
MaxShapes == 2
MaxFaces == 2
MaxIndices == 2
MaxItems == 5
MaxPartShapes == 5

(***************************************************************************)
(* Program constants.                                                      *)
(***************************************************************************)
kMaxLightSamples == 1
kColor == 0
NullHandle == 0
Garbage == -1
kWorkGroupSize == 64
kMaxStackSize == 48
kMaxBatchSize == 1048576
SizeofInt == 4
SizeofFloat3 == 16

VARIABLES m_outputs, m_num_bounces, m_framecnt, rd, fr, handles, nalloc,
          nresize, pc, pass, scene, log, nrand, dev, nrender, isect, tr

\* nrender counts the Render calls that returned since the last Clear
\* isect is the state of the intersection driver, tr that of its face-table
\* translation
isectVars == <<isect, tr>>
ptVars == <<m_outputs, m_num_bounces, m_framecnt, rd, fr, handles, nalloc, nresize, nrender,
           isect, tr>>
runVars == <<pc, pass, scene, log, nrand>>
vars == <<m_outputs, m_num_bounces, m_framecnt, rd, fr, handles, nalloc,
          nresize, pc, pass, scene, log, nrand, dev, nrender, isect, tr>>

OutputTypes == 0 .. (NumOutputTypes - 1)
NoOutput == [w |-> 0, h |-> 0]
Outputs(d) == [w : 1 .. d, h : 1 .. d]
EnvMapIdxs == {-1, 0}

Min(a, b) == IF a < b THEN a ELSE b

(***************************************************************************)
(* RenderData: the compute-API buffers of the working set, in the order    *)
(* ResizeWorkingSet creates them, and the ray-engine handles.              *)
(***************************************************************************)
WSOrder == << <<"rays", 0>>, <<"rays", 1>>, <<"hits", 0>>, <<"intersections", 0>>,
              <<"shadowrays", 0>>, <<"shadowhits", 0>>, <<"lightsamples", 0>>,
              <<"paths", 0>>, <<"random", 0>>, <<"iota", 0>>,
              <<"compacted_indices", 0>>, <<"pixelindices", 0>>,
              <<"pixelindices", 1>>, <<"hitcount", 0>> >>
WSKeys == {WSOrder[i] : i \in DOMAIN WSOrder}
WSIndex(k) == CHOOSE i \in DOMAIN WSOrder : WSOrder[i] = k

FrOrder == << <<"fr_rays", 0>>, <<"fr_rays", 1>>, <<"fr_shadowrays", 0>>,
              <<"fr_hits", 0>>, <<"fr_shadowhits", 0>>, <<"fr_intersections", 0>>,
              <<"fr_hitcount", 0>> >>
FrKeys == {FrOrder[i] : i \in DOMAIN FrOrder}
FrIndex(k) == CHOOSE i \in DOMAIN FrOrder : FrOrder[i] = k

RenderData0 == [k \in WSKeys |-> [id |-> 0, count |-> 0]]
FrData0 == [k \in FrKeys |-> NullHandle]

GetOutput(type) == m_outputs[type]
IsBound(o) == o # NoOutput

\* element count of each buffer created by ResizeWorkingSet for an output
ElemCount(k, o) ==
    IF k = <<"hitcount", 0>> THEN 1
    ELSE IF k[1] \in {"shadowrays", "shadowhits", "lightsamples"}
         THEN o.w * o.h * kMaxLightSamples
         ELSE o.w * o.h

\* the compute-API buffer each ray-engine handle is created from
FrSource(k) ==
    CASE k = <<"fr_rays", 0>> -> <<"rays", 0>>
      [] k = <<"fr_rays", 1>> -> <<"rays", 1>>
      [] k = <<"fr_shadowrays", 0>> -> <<"shadowrays", 0>>
      [] k = <<"fr_hits", 0>> -> <<"hits", 0>>
      [] k = <<"fr_shadowhits", 0>> -> <<"shadowhits", 0>>
      [] k = <<"fr_intersections", 0>> -> <<"intersections", 0>>
      [] k = <<"fr_hitcount", 0>> -> <<"hitcount", 0>>

FrDeletedSkipsHits == FrKeys \ {<<"fr_hits", 0>>}

\* the ray-engine handles ResizeWorkingSet passes to api->DeleteBuffer
FrDeleted == FrKeys

\* m_context.CreateBuffer calls of ResizeWorkingSet: every buffer is a fresh
\* allocation; base is the number of allocations made so far
CreateBuffers(o, base) ==
    [k \in WSKeys |-> [id |-> base + WSIndex(k), count |-> ElemCount(k, o)]]

\* api->DeleteBuffer on each handle held in f (deleting nullptr is a no-op)
DeleteFrBuffers(hs, f) ==
    [h \in DOMAIN hs |->
        [hs[h] EXCEPT !.deleted = @ + Cardinality({k \in FrDeleted : f[k] = h})]]

\* CreateFromOpenClBuffer for each handle, bound to the buffers of newrd
CreateFrBuffers(newrd) ==
    [i \in 1 .. Len(FrOrder) |-> [alloc |-> newrd[FrSource(FrOrder[i])].id, deleted |-> 0]]

\* the render data, allocation count, ray-engine handle table and held
\* handles after ResizeWorkingSet(o)
Resized(o, base, hs, f) ==
    LET newrd == CreateBuffers(o, base) IN
    [rd |-> newrd,
     nalloc |-> base + Len(WSOrder),
     handles |-> DeleteFrBuffers(hs, f) \o CreateFrBuffers(newrd),
     fr |-> [k \in FrKeys |-> Len(hs) + FrIndex(k)]]

ResizeWorkingSet(o) ==
    LET r == Resized(o, nalloc, handles, fr) IN
    /\ rd' = r.rd
    /\ nalloc' = r.nalloc
    /\ handles' = r.handles
    /\ fr' = r.fr
    /\ nresize' = nresize + 1

NeedsResizeBothDims(type, o) ==
    LET current_output == GetOutput(type) IN
    \/ ~IsBound(current_output)
    \/ current_output.w < o.w /\ current_output.h < o.h

NeedsResize(type, o) ==
    LET current_output == GetOutput(type) IN
    \/ ~IsBound(current_output)
    \/ current_output.w < o.w
    \/ current_output.h < o.h

SetOutput(type, o) ==
    /\ pc = "idle"
    /\ IF NeedsResize(type, o)
       THEN ResizeWorkingSet(o)
       ELSE UNCHANGED <<rd, fr, handles, nalloc, nresize>>
    /\ m_outputs' = [m_outputs EXCEPT ![type] = o]
    /\ UNCHANGED <<m_num_bounces, m_framecnt, runVars, dev, nrender, isectVars>>

SetNumBounces(n) ==
    /\ pc = "idle"
    /\ m_num_bounces' = n
    /\ UNCHANGED <<m_outputs, m_framecnt, rd, fr, handles, nalloc, nresize, runVars, dev, nrender,
                   isectVars>>

ClearKeepsFrameCnt ==
    /\ pc = "idle"
    /\ \E type \in OutputTypes : IsBound(m_outputs[type])
    /\ nrender' = 0
    /\ UNCHANGED <<m_outputs, m_num_bounces, m_framecnt, rd, fr, handles, nalloc, nresize,
                   runVars, dev, isectVars>>

Clear ==
    /\ pc = "idle"
    /\ \E type \in OutputTypes : IsBound(m_outputs[type])
    /\ m_framecnt' = 0
    /\ nrender' = 0
    /\ UNCHANGED <<m_outputs, m_num_bounces, rd, fr, handles, nalloc, nresize, runVars, dev,
                   isectVars>>

(***************************************************************************)
(* Commands enqueued on queue 0.                                           *)
(***************************************************************************)
Cmd(op, kernel, args, gs, ls) ==
    [op |-> op, kernel |-> kernel, args |-> args, gs |-> gs, ls |-> ls]

IntArg(v) == <<"int", v>>

Launch1D(kernel, args, globalsize) ==
    Cmd("Launch1D", kernel, args, <<((globalsize + 63) \div 64) * 64>>, <<64>>)

Launch2D(kernel, args, w, h) ==
    Cmd("Launch2D", kernel, args, <<((w + 7) \div 8) * 8, ((h + 7) \div 8) * 8>>, <<8, 8>>)

FillBuffer(buf, val, count) == Cmd("FillBuffer", "", <<buf, IntArg(val), IntArg(count)>>, <<>>, <<>>)

CopyBuffer(src, dst, count) == Cmd("CopyBuffer", "", <<src, dst, IntArg(count)>>, <<>>, <<>>)

Compact(pred, src, dst, count) == Cmd("Compact", "", <<pred, src, dst, count>>, <<>>, <<>>)

QueryIntersection(rays, numrays, maxrays, hits) ==
    Cmd("QueryIntersection", "", <<rays, numrays, IntArg(maxrays), hits>>, <<>>, <<>>)

\* the overload taking the number of rays as a plain int
QueryIntersectionN(rays, numrays, hits) ==
    Cmd("QueryIntersection", "", <<rays, IntArg(numrays), hits>>, <<>>, <<>>)

QueryOcclusion(rays, numrays, maxrays, hits) ==
    Cmd("QueryOcclusion", "", <<rays, numrays, IntArg(maxrays), hits>>, <<>>, <<>>)

Flush == Cmd("Flush", "", <<>>, <<>>, <<>>)

\* m_context.Finish(0): the host blocks until queue 0 has drained
Finish == Cmd("Finish", "", <<>>, <<>>, <<>>)

(***************************************************************************)
(* Kernel argument lists, in SetArg order.  r is the value of rand_uint()  *)
(* drawn for the dispatch.                                                 *)
(***************************************************************************)
RandUint(r) == <<"rand_uint", r>>
FrameCnt == <<"m_framecnt", m_framecnt>>

GeneratePrimaryRaysArgs(o, r) ==
    << <<"scene.camera", 0>>, IntArg(o.w), IntArg(o.h), RandUint(r), FrameCnt,
       <<"rays", 0>>, <<"random", 0>>, <<"sobolmat", 0>>, <<"paths", 0>> >>

GenKernelName == IF scene.camera_type = "default"
                 THEN "PerspectiveCamera_GeneratePaths"
                 ELSE "PerspectiveCameraDof_GeneratePaths"

SceneGeometryArgs ==
    << <<"scene.vertices", 0>>, <<"scene.normals", 0>>, <<"scene.uvs", 0>>,
       <<"scene.indices", 0>>, <<"scene.shapes", 0>>, <<"scene.materialids", 0>>,
       <<"scene.materials", 0>>, <<"scene.textures", 0>>, <<"scene.texturedata", 0>>,
       <<"scene.envmapidx", scene.envmapidx>>, <<"scene.lights", 0>>,
       <<"scene.num_lights", 0>> >>

ShadeSurfaceArgsPre(p, r) ==
    << <<"rays", p % 2>>, <<"intersections", 0>>, <<"compacted_indices", 0>>,
       <<"pixelindices", (p + 1) % 2>>, <<"hitcount", 0>> >>
    \o SceneGeometryArgs
    \o << RandUint(r), <<"random", 0>>, <<"sobolmat", 0>>, <<"pass", p>>, FrameCnt,
          <<"scene.volumes", 0>>, <<"shadowrays", 0>>, <<"lightsamples", 0>>,
          <<"paths", 0>>, <<"rays", (p + 1) % 2>>, <<"output", kColor>> >>

ShadeSurfaceArgs(p, r) ==
    << <<"rays", p % 2>>, <<"intersections", 0>>, <<"compacted_indices", 0>>,
       <<"pixelindices", p % 2>>, <<"hitcount", 0>> >>
    \o SceneGeometryArgs
    \o << RandUint(r), <<"random", 0>>, <<"sobolmat", 0>>, <<"pass", p>>, FrameCnt,
          <<"scene.volumes", 0>>, <<"shadowrays", 0>>, <<"lightsamples", 0>>,
          <<"paths", 0>>, <<"rays", (p + 1) % 2>>, <<"output", kColor>> >>

ShadeVolumeArgs(p, r) ==
    << <<"rays", p % 2>>, <<"intersections", 0>>, <<"compacted_indices", 0>>,
       <<"pixelindices", p % 2>>, <<"hitcount", 0>> >>
    \o SceneGeometryArgs
    \o << RandUint(r), <<"random", 0>>, <<"sobolmat", 0>>, <<"pass", p>>, FrameCnt,
          <<"scene.volumes", 0>>, <<"shadowrays", 0>>, <<"lightsamples", 0>>,
          <<"paths", 0>>, <<"rays", (p + 1) % 2>>, <<"output", kColor>> >>

EvaluateVolumeArgs(p, r) ==
    << <<"rays", p % 2>>, <<"pixelindices", (p + 1) % 2>>, <<"hitcount", 0>>,
       <<"scene.volumes", 0>>, <<"scene.textures", 0>>, <<"scene.texturedata", 0>>,
       RandUint(r), <<"random", 0>>, <<"sobolmat", 0>>, <<"pass", p>>, FrameCnt,
       <<"intersections", 0>>, <<"paths", 0>>, <<"output", kColor>> >>

ShadeBackgroundArgs(p, numrays) ==
    << <<"rays", p % 2>>, <<"intersections", 0>>, <<"pixelindices", (p + 1) % 2>>,
       IntArg(numrays), <<"scene.lights", 0>>, <<"scene.envmapidx", scene.envmapidx>>,
       <<"scene.textures", 0>>, <<"scene.texturedata", 0>>, <<"paths", 0>>,
       <<"scene.volumes", 0>>, <<"output", kColor>> >>

GatherLightSamplesArgsPre(p) ==
    << <<"pixelindices", (p + 1) % 2>>, <<"hitcount", 0>>, <<"shadowhits", 0>>,
       <<"lightsamples", 0>>, <<"paths", 0>>, <<"output", kColor>> >>

GatherLightSamplesArgs(p) ==
    << <<"pixelindices", p % 2>>, <<"hitcount", 0>>, <<"shadowhits", 0>>,
       <<"lightsamples", 0>>, <<"paths", 0>>, <<"output", kColor>> >>

RestorePixelIndicesArgs(p) ==
    << <<"compacted_indices", 0>>, <<"hitcount", 0>>,
       <<"pixelindices", (p + 1) % 2>>, <<"pixelindices", p % 2>> >>

FilterPathStreamArgsPost(p) ==
    << <<"intersections", 0>>, <<"hitcount", 0>>, <<"pixelindices", p % 2>>,
       <<"paths", 0>>, <<"hits", 0>> >>

FilterPathStreamArgs(p) ==
    << <<"intersections", 0>>, <<"hitcount", 0>>, <<"pixelindices", (p + 1) % 2>>,
       <<"paths", 0>>, <<"hits", 0>> >>

ShadeMissArgs(p) ==
    << <<"rays", p % 2>>, <<"intersections", 0>>, <<"pixelindices", (p + 1) % 2>>,
       <<"hitcount", 0>>, <<"scene.lights", 0>>, <<"scene.envmapidx", scene.envmapidx>>,
       <<"scene.textures", 0>>, <<"scene.texturedata", 0>>, <<"paths", 0>>,
       <<"scene.volumes", 0>>, <<"output", kColor>> >>

RECURSIVE AovSlotArgs(_)
\* the (enable, buffer) pairs of output slots i .. kMax-1
AovSlotArgs(i) ==
    IF i >= NumOutputTypes THEN <<>>
    ELSE (IF IsBound(GetOutput(i))
          THEN <<IntArg(1), <<"output", i>>>>
          ELSE <<IntArg(0), <<"hitcount", 0>>>>) \o AovSlotArgs(i + 1)

FillAOVsArgs(num_items, r) ==
    << <<"rays", 0>>, <<"intersections", 0>>, IntArg(num_items),
       <<"scene.vertices", 0>>, <<"scene.normals", 0>>, <<"scene.uvs", 0>>,
       <<"scene.indices", 0>>, <<"scene.shapes", 0>>, <<"scene.materialids", 0>>,
       <<"scene.materials", 0>>, <<"scene.textures", 0>>, <<"scene.texturedata", 0>>,
       <<"scene.envmapidx", scene.envmapidx>>, <<"scene.lights", 0>>,
       <<"scene.num_lights", 0>>, RandUint(r), <<"random", 0>>, <<"sobolmat", 0>>,
       FrameCnt >>
    \o AovSlotArgs(1)

(***************************************************************************)
(* PtRenderer::Render, one step per statement.  Each Enq* operator is the  *)
(* host side of a step: the command it appends to the queue and the next   *)
(* position in Render.                                                     *)
(***************************************************************************)
ColorOutput == GetOutput(kColor)
MaxRays == ColorOutput.w * ColorOutput.h

AovPassNeededFirstSlot == IsBound(GetOutput(1))

\* Render, lines 234-242: is some output other than color bound
AovPassNeeded == \E i \in 1 .. (NumOutputTypes - 1) : IsBound(GetOutput(i))

\* FillAOVs, lines 342-354: color output, else the first bound AOV
AovOutput ==
    IF IsBound(GetOutput(kColor)) THEN GetOutput(kColor)
    ELSE LET i == CHOOSE i \in 1 .. (NumOutputTypes - 1) :
                      /\ IsBound(GetOutput(i))
                      /\ \A j \in 1 .. (i - 1) : ~IsBound(GetOutput(j))
         IN GetOutput(i)

AfterLoop == IF AovPassNeeded THEN "aov_gen" ELSE "inc"

LoopTestOffByOne(p) == IF p <= m_num_bounces THEN "fillhits" ELSE AfterLoop

\* the test of the bounce loop
LoopTest(p) == IF p < m_num_bounces THEN "fillhits" ELSE AfterLoop

ShadeMissGateAnyPass(p) == scene.envmapidx > -1

ShadeMissGate(p) == p > 0 /\ scene.envmapidx > -1

ShadeBackgroundGate(p) == p = 0

Step(from, to, cmds, draws) ==
    /\ pc = from
    /\ pc' = to
    /\ log' = log \o cmds
    /\ nrand' = nrand + draws
    /\ UNCHANGED <<ptVars, pass, scene>>

NoScene == [envmapidx |-> -1, camera_type |-> "none"]
Scenes == [envmapidx : EnvMapIdxs, camera_type : {"default", "dof"}]

EnqRenderBegin(s) ==
    /\ pc = "idle"
    /\ m_framecnt < MaxFrames
    /\ scene' = s
    /\ log' = <<>>
    /\ nrand' = 0
    /\ pass' = 0
    /\ pc' = IF IsBound(GetOutput(kColor)) THEN "gen" ELSE AfterLoop
    /\ UNCHANGED ptVars

GeneratePrimaryRaysCmd(o) ==
    Launch2D(GenKernelName, GeneratePrimaryRaysArgs(o, nrand), o.w, o.h)

EnqGeneratePrimaryRays ==
    Step("gen", "copy0", <<GeneratePrimaryRaysCmd(ColorOutput)>>, 1)

CopyIotaCmd(i) ==
    CopyBuffer(<<"iota", 0>>, <<"pixelindices", i>>, rd[<<"iota", 0>>].count)

EnqCopyIota0 == Step("copy0", "copy1", <<CopyIotaCmd(0)>>, 0)

EnqCopyIota1 == Step("copy1", "fillcount", <<CopyIotaCmd(1)>>, 0)

FillHitcountCmd == FillBuffer(<<"hitcount", 0>>, MaxRays, 1)

EnqFillHitcount == Step("fillcount", LoopTest(0), <<FillHitcountCmd>>, 0)

FillHitsCmdNoClear == FillBuffer(<<"hits", 0>>, 0, 0)

FillHitsCmd == FillBuffer(<<"hits", 0>>, 0, rd[<<"hits", 0>>].count)

EnqFillHits == Step("fillhits", "intersect", <<FillHitsCmd>>, 0)

IntersectCmdRays0(p) ==
    QueryIntersection(<<"fr_rays", 0>>, <<"fr_hitcount", 0>>, MaxRays,
                      <<"fr_intersections", 0>>)

IntersectCmd(p) ==
    QueryIntersection(<<"fr_rays", p % 2>>, <<"fr_hitcount", 0>>, MaxRays,
                      <<"fr_intersections", 0>>)

EnqIntersect == Step("intersect", "evalvol", <<IntersectCmd(pass)>>, 0)

EvaluateVolumeCmd(p) ==
    Launch1D("EvaluateVolume", EvaluateVolumeArgs(p, nrand), MaxRays)

EnqEvaluateVolume ==
    Step("evalvol", IF ShadeMissGate(pass) THEN "shademiss" ELSE "filter",
         <<EvaluateVolumeCmd(pass)>>, 1)

ShadeMissCmd(p) == Launch1D("ShadeMiss", ShadeMissArgs(p), MaxRays)

EnqShadeMiss == Step("shademiss", "filter", <<ShadeMissCmd(pass)>>, 0)

FilterPathStreamCmd(p) == Launch1D("FilterPathStream", FilterPathStreamArgs(p), MaxRays)

EnqFilterPathStream == Step("filter", "compact", <<FilterPathStreamCmd(pass)>>, 0)

CompactCmdSrcHits ==
    Compact(<<"hits", 0>>, <<"hits", 0>>, <<"compacted_indices", 0>>, <<"hitcount", 0>>)

\* line 207
CompactCmd ==
    Compact(<<"hits", 0>>, <<"iota", 0>>, <<"compacted_indices", 0>>, <<"hitcount", 0>>)

EnqCompact == Step("compact", "restore", <<CompactCmd>>, 0)

RestorePixelIndicesCmd(p) ==
    Launch1D("RestorePixelIndices", RestorePixelIndicesArgs(p), MaxRays)

EnqRestorePixelIndices == Step("restore", "shadevol", <<RestorePixelIndicesCmd(pass)>>, 0)

ShadeVolumeCmd(p) == Launch1D("ShadeVolume", ShadeVolumeArgs(p, nrand), MaxRays)

EnqShadeVolume == Step("shadevol", "shadesurf", <<ShadeVolumeCmd(pass)>>, 1)

ShadeSurfaceCmdReusesRand(p) ==
    Launch1D("ShadeSurface", ShadeSurfaceArgs(p, nrand - 1), MaxRays)

ShadeSurfaceCmd(p) == Launch1D("ShadeSurface", ShadeSurfaceArgs(p, nrand), MaxRays)

EnqShadeSurface ==
    Step("shadesurf", IF ShadeBackgroundGate(pass) THEN "bg" ELSE "occl",
         <<ShadeSurfaceCmd(pass)>>, 1)

ShadeBackgroundCmd(p) ==
    Launch1D("ShadeBackgroundEnvMap", ShadeBackgroundArgs(p, MaxRays), MaxRays)

EnqShadeBackground == Step("bg", "occl", <<ShadeBackgroundCmd(pass)>>, 0)

OccludedCmd ==
    QueryOcclusion(<<"fr_shadowrays", 0>>, <<"fr_hitcount", 0>>, MaxRays,
                   <<"fr_shadowhits", 0>>)

EnqOccluded == Step("occl", "gather", <<OccludedCmd>>, 0)

GatherLightSamplesCmd(p) ==
    Launch1D("GatherLightSamples", GatherLightSamplesArgs(p), MaxRays)

EnqGatherLightSamples == Step("gather", "flush", <<GatherLightSamplesCmd(pass)>>, 0)

EnqFlush ==
    /\ pc = "flush"
    /\ log' = Append(log, Flush)
    /\ pass' = pass + 1
    /\ pc' = LoopTest(pass + 1)
    /\ UNCHANGED <<ptVars, scene, nrand>>

\* FillAOVs
EnqAovGeneratePrimaryRays ==
    Step("aov_gen", "aov_isect", <<GeneratePrimaryRaysCmd(AovOutput)>>, 1)

AovIntersectCmd ==
    QueryIntersectionN(<<"fr_rays", 0>>, AovOutput.w * AovOutput.h, <<"fr_intersections", 0>>)

EnqAovIntersect == Step("aov_isect", "aov_fill", <<AovIntersectCmd>>, 0)

FillAOVsCmd ==
    Launch1D("FillAOVs", FillAOVsArgs(AovOutput.w * AovOutput.h, nrand),
             AovOutput.w * AovOutput.h)

EnqFillAOVs == Step("aov_fill", "aov_flush", <<FillAOVsCmd>>, 1)

EnqAovFlush == Step("aov_flush", "inc", <<Flush>>, 0)

EnqRenderEnd ==
    /\ pc = "inc"
    /\ m_framecnt' = m_framecnt + 1
    /\ nrender' = nrender + 1
    /\ pc' = "idle"
    /\ pass' = 0
    /\ scene' = NoScene
    /\ log' = <<>>
    /\ nrand' = 0
    /\ UNCHANGED <<m_outputs, m_num_bounces, rd, fr, handles, nalloc, nresize, isectVars>>

(***************************************************************************)
(* PtRenderer::RunBenchmark.  The caller has bound a color output (the     *)
(* method dereferences it unchecked).  The three timed sections repeat a   *)
(* query num_passes times and end in Finish.                               *)
(***************************************************************************)
Rep(c, n) == [i \in 1 .. n |-> c]

EnqBenchmarkBegin(s) ==
    /\ pc = "idle"
    /\ IsBound(GetOutput(kColor))
    /\ scene' = s
    /\ log' = <<>>
    /\ nrand' = 0
    /\ pass' = 0
    /\ pc' = "bench"
    /\ UNCHANGED ptVars

BenchShadeMissCmds(p) == <<ShadeMissCmd(p)>>

\* the commands of RunBenchmark in program order; r is the number of
\* rand_uint() draws made before the call
BenchmarkCmds(num_passes, r) ==
    << Launch2D(GenKernelName, GeneratePrimaryRaysArgs(ColorOutput, r),
                ColorOutput.w, ColorOutput.h),
       CopyIotaCmd(0), CopyIotaCmd(1), FillHitcountCmd, FillHitsCmd >>
    \o Rep(IntersectCmd(0), num_passes)
    \o << Finish, FilterPathStreamCmd(0), CompactCmd, RestorePixelIndicesCmd(0),
          Launch1D("ShadeSurface", ShadeSurfaceArgs(0, r + 1), MaxRays) >>
    \o BenchShadeMissCmds(0)
    \o Rep(OccludedCmd, num_passes)
    \o << Finish, GatherLightSamplesCmd(0), Flush, FillHitsCmd >>
    \o Rep(IntersectCmd(1), num_passes)
    \o << Finish, FilterPathStreamCmd(1), CompactCmd, RestorePixelIndicesCmd(1),
          Launch1D("ShadeSurface", ShadeSurfaceArgs(1, r + 2), MaxRays) >>
    \o BenchShadeMissCmds(1)
    \o << OccludedCmd, GatherLightSamplesCmd(0), Flush >>

EnqBenchmark(num_passes) ==
    Step("bench", "bench_done", BenchmarkCmds(num_passes, nrand), 3)

EnqBenchmarkEnd ==
    /\ pc = "bench_done"
    /\ pc' = "idle"
    /\ pass' = 0
    /\ scene' = NoScene
    /\ log' = <<>>
    /\ nrand' = 0
    /\ UNCHANGED ptVars

(***************************************************************************)
(* Spec: the driver as seen from the host.                                 *)
(***************************************************************************)
DevNone == [hitcount |-> 0]
\* the path-tracing specifications leave the intersection driver out
IsectNone == [stack |-> 0]
TrNone == [pc |-> "none"]

Init ==
    /\ m_outputs = [t \in OutputTypes |-> NoOutput]
    /\ m_num_bounces \in 0 .. MaxBounces
    /\ m_framecnt = 0
    /\ rd = RenderData0
    /\ fr = FrData0
    /\ handles = <<>>
    /\ nalloc = 0
    /\ nresize = 0
    /\ pc = "idle"
    /\ pass = 0
    /\ scene = NoScene
    /\ log = <<>>
    /\ nrand = 0
    /\ dev = DevNone
    /\ nrender = 0
    /\ isect = IsectNone
    /\ tr = TrNone

\* the outputs bound while rendering are single rows of 1 .. MaxDim pixels;
\* SpecOutputs varies both dimensions
RenderOutputs == {o \in Outputs(MaxDim) : o.h = 1}

DoSetOutput ==
    \E type \in OutputTypes, o \in RenderOutputs :
        /\ NeedsResize(type, o) => nresize < MaxResizes
        /\ SetOutput(type, o)
DoSetNumBounces == \E n \in 0 .. MaxBounces : SetNumBounces(n)
RenderBegin == (\E s \in Scenes : EnqRenderBegin(s)) /\ UNCHANGED dev
GeneratePrimaryRays == EnqGeneratePrimaryRays /\ UNCHANGED dev
CopyIota0 == EnqCopyIota0 /\ UNCHANGED dev
CopyIota1 == EnqCopyIota1 /\ UNCHANGED dev
FillHitcount == EnqFillHitcount /\ UNCHANGED dev
FillHits == EnqFillHits /\ UNCHANGED dev
Intersect == EnqIntersect /\ UNCHANGED dev
EvaluateVolume == EnqEvaluateVolume /\ UNCHANGED dev
ShadeMiss == EnqShadeMiss /\ UNCHANGED dev
FilterPathStream == EnqFilterPathStream /\ UNCHANGED dev
CompactHits == EnqCompact /\ UNCHANGED dev
RestorePixelIndices == EnqRestorePixelIndices /\ UNCHANGED dev
ShadeVolume == EnqShadeVolume /\ UNCHANGED dev
ShadeSurface == EnqShadeSurface /\ UNCHANGED dev
ShadeBackground == EnqShadeBackground /\ UNCHANGED dev
Occluded == EnqOccluded /\ UNCHANGED dev
GatherLightSamples == EnqGatherLightSamples /\ UNCHANGED dev
FlushQueue == EnqFlush /\ UNCHANGED dev
AovGeneratePrimaryRays == EnqAovGeneratePrimaryRays /\ UNCHANGED dev
AovIntersect == EnqAovIntersect /\ UNCHANGED dev
FillAOVs == EnqFillAOVs /\ UNCHANGED dev
AovFlush == EnqAovFlush /\ UNCHANGED dev
RenderEnd == EnqRenderEnd /\ UNCHANGED dev
BenchmarkBegin == (\E s \in Scenes : EnqBenchmarkBegin(s)) /\ UNCHANGED dev
RunBenchmark == (\E num_passes \in 0 .. MaxBenchPasses : EnqBenchmark(num_passes)) /\ UNCHANGED dev
BenchmarkEnd == EnqBenchmarkEnd /\ UNCHANGED dev

Next ==
    \/ DoSetOutput
    \/ DoSetNumBounces
    \/ Clear
    \/ RenderBegin
    \/ GeneratePrimaryRays
    \/ CopyIota0
    \/ CopyIota1
    \/ FillHitcount
    \/ FillHits
    \/ Intersect
    \/ EvaluateVolume
    \/ ShadeMiss
    \/ FilterPathStream
    \/ CompactHits
    \/ RestorePixelIndices
    \/ ShadeVolume
    \/ ShadeSurface
    \/ ShadeBackground
    \/ Occluded
    \/ GatherLightSamples
    \/ FlushQueue
    \/ AovGeneratePrimaryRays
    \/ AovIntersect
    \/ FillAOVs
    \/ AovFlush
    \/ RenderEnd
    \/ BenchmarkBegin
    \/ RunBenchmark
    \/ BenchmarkEnd

Spec == Init /\ [][Next]_vars

(***************************************************************************)
(* SpecOutputs: sequences of SetOutput calls on a fresh renderer.          *)
(***************************************************************************)
BindOutput ==
    \E type \in OutputTypes, o \in Outputs(MaxOutDim) :
        /\ NeedsResize(type, o) => nresize < MaxOutResizes
        /\ SetOutput(type, o)

SpecOutputs == Init /\ [][BindOutput]_vars

(***************************************************************************)
(* Device side.  dev holds the contents of the working-set buffers that    *)
(* carry the path stream: arrays are functions on 0 .. count-1.            *)
(*   rays[b][i]     the pixel whose path ray slot i of rays[b] belongs to  *)
(*   pix[t][i]      pixelindices[t][i]                                     *)
(*   isect[i]       shape id of the intersection of slot i (-1: miss)      *)
(*   alive[p]       alive bit of paths[p].flags                            *)
(* The kernels and the compaction primitive are not part of the host       *)
(* sources; their effect is taken from the design document.                *)
(***************************************************************************)
Arr(n, v) == [i \in 0 .. (n - 1) |-> v]
At(a, i) == IF i \in DOMAIN a THEN a[i] ELSE Garbage
Prefix(n) == 0 .. (n - 1)

DevGeneratePaths(d, cmd) ==
    LET n == cmd.args[2][2] * cmd.args[3][2]
        b == cmd.args[6][2]
    IN [d EXCEPT !.rays[b] = [i \in DOMAIN @ |-> IF i < n THEN i ELSE @[i]],
                 !.alive = [i \in DOMAIN @ |-> IF i < n THEN TRUE ELSE @[i]]]

DevCopyBuffer(d, cmd) ==
    LET t == cmd.args[2][2]
        n == cmd.args[3][2]
    IN [d EXCEPT !.pix[t] = [i \in DOMAIN @ |-> IF i < n THEN At(d.iota, i) ELSE @[i]]]

DevFillHitcount(d, cmd) == [d EXCEPT !.hitcount = cmd.args[2][2]]

DevFillHits(d, cmd) ==
    LET n == cmd.args[3][2]
    IN [d EXCEPT !.hits = [i \in DOMAIN @ |-> IF i < n THEN cmd.args[2][2] ELSE @[i]]]

\* closest-hit query over the first min(numrays, maxrays) rays; H: the slots that hit
DevIntersect(d, cmd, H) ==
    LET n == Min(d.hitcount, cmd.args[3][2])
    IN [d EXCEPT !.isect = [i \in DOMAIN @ |->
                               IF i < n THEN (IF i \in H THEN 0 ELSE -1) ELSE @[i]]]

\* FilterPathStream(isects, numitems, pixelidx, paths, predicate); K: the slots
\* whose path is killed for low throughput
DevFilterPathStream(d, cmd, K) ==
    LET t == cmd.args[3][2]
        n == d.hitcount
        pixel(i) == At(d.pix[t], i)
    IN [d EXCEPT
          !.hits = [i \in DOMAIN @ |->
                      IF i < n
                      THEN (IF At(d.alive, pixel(i)) = TRUE /\ i \notin K /\ At(d.isect, i) >= 0
                            THEN 1 ELSE 0)
                      ELSE @[i]],
          !.alive = [p \in DOMAIN @ |->
                      @[p] /\ ~(\E i \in K : i < n /\ pixel(i) = p)]]

RECURSIVE Survivors(_, _)
\* the indices i < n with pred[i] = 1, in increasing order
Survivors(pred, n) ==
    IF n = 0 THEN <<>>
    ELSE IF pred[n - 1] = 1 THEN Append(Survivors(pred, n - 1), n - 1)
         ELSE Survivors(pred, n - 1)

\* the contents of an int buffer of the working set
DevBuffer(d, key) ==
    CASE key[1] = "hits" -> d.hits
      [] key[1] = "iota" -> d.iota
      [] key[1] = "compacted_indices" -> d.compacted

\* parallel_compact(predicate, src -> dst, count) with the buffers the
\* command names: stable stream compaction into compacted_indices / hitcount
DevCompactCmd(d, cmd) ==
    LET pred == DevBuffer(d, cmd.args[1])
        src == DevBuffer(d, cmd.args[2])
        s == Survivors(pred, Cardinality(DOMAIN pred))
    IN [d EXCEPT !.compacted = [i \in DOMAIN @ |->
                                   IF i < Len(s) THEN At(src, s[i + 1]) ELSE @[i]],
                 !.hitcount = Len(s)]

\* the Compact call of Render
DevCompact(d) == DevCompactCmd(d, CompactCmd)

\* RestorePixelIndices(compacted_indices, numitems, previndices, newindices)
DevRestorePixelIndices(d, cmd) ==
    LET src == cmd.args[3][2]
        dst == cmd.args[4][2]
        n == d.hitcount
    IN [d EXCEPT !.pix[dst] = [i \in DOMAIN @ |->
                                  IF i < n THEN At(d.pix[src], At(d.compacted, i)) ELSE @[i]]]

\* ShadeVolume / ShadeSurface: for every live slot i the continuation ray of
\* the path of pixel pixelindices[i] is written to slot i of the output rays;
\* K: the slots whose path is terminated by the kernel
DevShade(d, cmd, K) ==
    LET t == cmd.args[4][2]
        out == cmd.args[27][2]
        n == d.hitcount
        pixel(i) == At(d.pix[t], i)
    IN [d EXCEPT
          !.rays[out] = [i \in DOMAIN @ |-> IF i < n THEN pixel(i) ELSE @[i]],
          !.alive = [p \in DOMAIN @ |->
                      @[p] /\ ~(\E i \in K : i < n /\ pixel(i) = p)]]

(***************************************************************************)
(* SpecFrame: Render with a color output of at most MaxPixels pixels,      *)
(* bound by SetOutput on a fresh renderer, no other output bound.          *)
(***************************************************************************)
FrameOutputs == {o \in Outputs(MaxPixels) : o.w * o.h <= MaxPixels}

Dev0(n) ==
    [rays |-> [b \in 0 .. 1 |-> Arr(n, Garbage)],
     pix |-> [t \in 0 .. 1 |-> Arr(n, Garbage)],
     hits |-> Arr(n, Garbage),
     isect |-> Arr(n, Garbage),
     compacted |-> Arr(n, Garbage),
     iota |-> [i \in 0 .. (n - 1) |-> i],
     alive |-> Arr(n, FALSE),
     hitcount |-> Garbage]

FrameInit ==
    \E o \in FrameOutputs :
      LET r == Resized(o, 0, <<>>, FrData0) IN
      /\ m_outputs = [t \in OutputTypes |-> IF t = kColor THEN o ELSE NoOutput]
      /\ m_num_bounces \in 0 .. MaxBounces
      /\ m_framecnt = 0
      /\ rd = r.rd
      /\ fr = r.fr
      /\ handles = r.handles
      /\ nalloc = r.nalloc
      /\ nresize = 1
      /\ pc = "idle"
      /\ pass = 0
      /\ scene = NoScene
      /\ log = <<>>
      /\ nrand = 0
      /\ dev = Dev0(o.w * o.h)
      /\ nrender = 0
      /\ isect = IsectNone
      /\ tr = TrNone

LiveSlots == {i \in Prefix(dev.hitcount) : At(dev.alive, At(dev.pix[pass % 2], i)) = TRUE}

\* the path stream does not depend on the camera model
FrameScenes == {s \in Scenes : s.camera_type = "default"}

FrameRenderBegin == (\E s \in FrameScenes : EnqRenderBegin(s)) /\ UNCHANGED dev
FrameGeneratePrimaryRays ==
    EnqGeneratePrimaryRays /\ dev' = DevGeneratePaths(dev, GeneratePrimaryRaysCmd(ColorOutput))
FrameCopyIota0 == EnqCopyIota0 /\ dev' = DevCopyBuffer(dev, CopyIotaCmd(0))
FrameCopyIota1 == EnqCopyIota1 /\ dev' = DevCopyBuffer(dev, CopyIotaCmd(1))
FrameFillHitcount == EnqFillHitcount /\ dev' = DevFillHitcount(dev, FillHitcountCmd)
FrameFillHits == EnqFillHits /\ dev' = DevFillHits(dev, FillHitsCmd)
FrameIntersect ==
    /\ EnqIntersect
    /\ \E H \in SUBSET Prefix(Min(dev.hitcount, MaxRays)) :
          dev' = DevIntersect(dev, IntersectCmd(pass), H)
FrameEvaluateVolume == EnqEvaluateVolume /\ UNCHANGED dev
FrameShadeMiss == EnqShadeMiss /\ UNCHANGED dev
FrameFilterPathStream ==
    /\ EnqFilterPathStream
    /\ \E K \in SUBSET Prefix(dev.hitcount) :
          dev' = DevFilterPathStream(dev, FilterPathStreamCmd(pass), K)
FrameCompact == EnqCompact /\ dev' = DevCompact(dev)
FrameRestorePixelIndices ==
    EnqRestorePixelIndices /\ dev' = DevRestorePixelIndices(dev, RestorePixelIndicesCmd(pass))
FrameShadeVolume ==
    EnqShadeVolume /\ dev' = DevShade(dev, ShadeVolumeCmd(pass), {})
FrameShadeSurface ==
    /\ EnqShadeSurface
    /\ \E K \in SUBSET LiveSlots : dev' = DevShade(dev, ShadeSurfaceCmd(pass), K)
FrameShadeBackground == EnqShadeBackground /\ UNCHANGED dev
FrameOccluded == EnqOccluded /\ UNCHANGED dev
FrameGatherLightSamples == EnqGatherLightSamples /\ UNCHANGED dev
FrameFlush == EnqFlush /\ UNCHANGED dev
FrameRenderEnd == EnqRenderEnd /\ UNCHANGED dev

FrameNext ==
    \/ FrameRenderBegin
    \/ FrameGeneratePrimaryRays
    \/ FrameCopyIota0
    \/ FrameCopyIota1
    \/ FrameFillHitcount
    \/ FrameFillHits
    \/ FrameIntersect
    \/ FrameEvaluateVolume
    \/ FrameShadeMiss
    \/ FrameFilterPathStream
    \/ FrameCompact
    \/ FrameRestorePixelIndices
    \/ FrameShadeVolume
    \/ FrameShadeSurface
    \/ FrameShadeBackground
    \/ FrameOccluded
    \/ FrameGatherLightSamples
    \/ FrameFlush
    \/ FrameRenderEnd

SpecFrame == FrameInit /\ [][FrameNext]_vars

(***************************************************************************)
(* Reading the queue: the commands of bounce p are those from the p-th     *)
(* clear of the hits buffer to the p-th Flush.                             *)
(***************************************************************************)
\* the working-set buffer a held ray-engine handle is bound to
FrBound(frkey) ==
    LET h == fr[frkey] IN
    IF h \in DOMAIN handles /\ \E k \in WSKeys : rd[k].id = handles[h].alloc
    THEN CHOOSE k \in WSKeys : rd[k].id = handles[h].alloc
    ELSE <<"none", 0>>

Sig(c) ==
    CASE c.op \in {"Launch1D", "Launch2D"} -> << <<c.kernel, 0>> >>
      [] c.op = "FillBuffer" -> << <<"FillBuffer", 0>>, c.args[1], c.args[2] >>
      [] c.op = "CopyBuffer" -> << <<"CopyBuffer", 0>>, c.args[1], c.args[2] >>
      [] c.op = "QueryIntersection" -> << <<"Intersect", 0>>, FrBound(c.args[1]) >>
      [] c.op = "QueryOcclusion" -> << <<"Occluded", 0>>, FrBound(c.args[1]) >>
      [] c.op = "Compact" -> << <<"Compact", 0>> >> \o c.args
      [] OTHER -> << <<c.op, 0>> >>

Sigs(q) == [i \in DOMAIN q |-> Sig(q[i])]

FillHitsIdx == {i \in DOMAIN log : log[i].op = "FillBuffer" /\ log[i].args[1] = <<"hits", 0>>}
FlushIdx == {i \in DOMAIN log : log[i].op = "Flush"}
NthOf(S, p) == CHOOSE i \in S : Cardinality({j \in S : j < i}) = p
PassStart(p) == NthOf(FillHitsIdx, p)
PassEnd(p) == NthOf(FlushIdx, p)
PassCmds(p) == SubSeq(log, PassStart(p), PassEnd(p))
Passes == 0 .. (m_num_bounces - 1)

\* the bounce loop of a Render with a color output has just been left
BounceLoopDone ==
    /\ IsBound(ColorOutput)
    /\ pc = "aov_gen" \/ (pc = "inc" /\ ~AovPassNeeded)

\* the queue splits into a 4-command preamble and m_num_bounces bounces
WellSplit ==
    /\ Cardinality(FillHitsIdx) = m_num_bounces
    /\ Cardinality(FlushIdx) = m_num_bounces
    /\ \A p \in Passes : PassStart(p) <= PassEnd(p)

KernelsOf(p, name) ==
    {i \in PassStart(p) .. PassEnd(p) : log[i].op = "Launch1D" /\ log[i].kernel = name}

K(name) == << <<name, 0>> >>

PassPattern(p, miss, bg) ==
    << << <<"FillBuffer", 0>>, <<"hits", 0>>, <<"int", 0>> >>,
       << <<"Intersect", 0>>, <<"rays", p % 2>> >>,
       K("EvaluateVolume") >>
    \o (IF miss THEN <<K("ShadeMiss")>> ELSE <<>>)
    \o << K("FilterPathStream"),
          << <<"Compact", 0>>, <<"hits", 0>>, <<"iota", 0>>,
             <<"compacted_indices", 0>>, <<"hitcount", 0>> >>,
          K("RestorePixelIndices"),
          K("ShadeVolume"),
          K("ShadeSurface") >>
    \o (IF bg THEN <<K("ShadeBackgroundEnvMap")>> ELSE <<>>)
    \o << << <<"Occluded", 0>>, <<"shadowrays", 0>> >>,
          K("GatherLightSamples"),
          K("Flush") >>

\* C1: in a Render with a color output bound, every pass p in
\* 0..num_bounces-1 enqueues exactly fill hits:=0, Intersect(rays[p&1]),
\* EvaluateVolume, [ShadeMiss], FilterPathStream, Compact(hits, iota ->
\* compacted_indices, hitcount), RestorePixelIndices, ShadeVolume,
\* ShadeSurface, [ShadeBackgroundEnvMap], Occluded(shadowrays),
\* GatherLightSamples, Flush, in this order, with nothing in between, and
\* exactly num_bounces such passes follow the frame preamble.
C1_PassSequence ==
    BounceLoopDone =>
        /\ WellSplit
        /\ \A p \in Passes :
              /\ PassStart(p) = (IF p = 0 THEN 5 ELSE PassEnd(p - 1) + 1)
              /\ \E miss \in BOOLEAN, bg \in BOOLEAN :
                    Sigs(PassCmds(p)) = PassPattern(p, miss, bg)
        /\ Len(log) = (IF m_num_bounces = 0 THEN 4 ELSE PassEnd(m_num_bounces - 1))

C1_Witness ==
    /\ BounceLoopDone
    /\ m_num_bounces = 2
    /\ scene.envmapidx >= 0
    /\ Len(log) = 4 + 12 + 12

\* C2: ShadeBackgroundEnvMap is dispatched in pass p iff p = 0 (once per
\* frame, whatever envmapidx is), and ShadeMiss is dispatched in pass p iff
\* p > 0 and the scene's envmapidx >= 0.
C2_Gates ==
    BounceLoopDone =>
        /\ WellSplit
        /\ \A p \in Passes :
              /\ Cardinality(KernelsOf(p, "ShadeBackgroundEnvMap")) = (IF p = 0 THEN 1 ELSE 0)
              /\ Cardinality(KernelsOf(p, "ShadeMiss"))
                   = (IF p > 0 /\ scene.envmapidx >= 0 THEN 1 ELSE 0)

C2_Witness ==
    /\ BounceLoopDone
    /\ WellSplit
    /\ m_num_bounces = 2
    /\ scene.envmapidx >= 0
    /\ KernelsOf(1, "ShadeMiss") # {}
    /\ KernelsOf(0, "ShadeMiss") = {}

\* the argument at position n of every dispatch of the named kernels in pass p
ArgsAt(p, names, n) ==
    {log[i].args[n] : i \in {j \in PassStart(p) .. PassEnd(p) :
                                 log[j].op = "Launch1D" /\ log[j].kernel \in names}}

\* the ray buffers read and written by the commands of pass p
RaysRead(p) ==
    ArgsAt(p, {"EvaluateVolume", "ShadeMiss", "ShadeBackgroundEnvMap",
               "ShadeVolume", "ShadeSurface"}, 1)
    \cup {FrBound(log[i].args[1]) : i \in {j \in PassStart(p) .. PassEnd(p) :
                                              log[j].op = "QueryIntersection"}}
RaysWritten(p) == ArgsAt(p, {"ShadeVolume", "ShadeSurface"}, 27)

\* C3: primary rays go to rays[0]; in pass p the intersection query,
\* EvaluateVolume, ShadeMiss/ShadeBackground, ShadeVolume and ShadeSurface
\* read rays[p&1]; ShadeVolume and ShadeSurface write rays[(p+1)&1]; the
\* buffer read in pass p+1 is the one written in pass p and never the one
\* written in the same pass.
C3_RayPingPong ==
    BounceLoopDone =>
        /\ WellSplit
        /\ log[1].op = "Launch2D" /\ log[1].args[6] = <<"rays", 0>>
        /\ \A p \in Passes :
              /\ RaysRead(p) = {<<"rays", p % 2>>}
              /\ RaysWritten(p) = {<<"rays", (p + 1) % 2>>}
              /\ RaysRead(p) \cap RaysWritten(p) = {}
              /\ (p + 1) \in Passes => RaysRead(p + 1) = RaysWritten(p)

C3_Witness ==
    /\ BounceLoopDone
    /\ WellSplit
    /\ m_num_bounces = 2
    /\ RaysRead(0) = {<<"rays", 0>>}
    /\ RaysRead(1) = {<<"rays", 1>>}
    /\ nresize = 2

PixPre(p) ==
    ArgsAt(p, {"EvaluateVolume"}, 2)
    \cup ArgsAt(p, {"ShadeMiss", "FilterPathStream", "ShadeBackgroundEnvMap",
                    "RestorePixelIndices"}, 3)
PixPost(p) ==
    ArgsAt(p, {"RestorePixelIndices", "ShadeVolume", "ShadeSurface"}, 4)
    \cup ArgsAt(p, {"GatherLightSamples"}, 1)

\* C6: in pass p EvaluateVolume, ShadeMiss, FilterPathStream and
\* ShadeBackground use pixelindices[(p+1)&1], RestorePixelIndices reads
\* pixelindices[(p+1)&1] and writes pixelindices[p&1], ShadeVolume,
\* ShadeSurface and GatherLightSamples read pixelindices[p&1]; the
\* pre-compaction table of pass p+1 is the table RestorePixelIndices wrote in
\* pass p, and RestorePixelIndices never reads and writes the same table.
C6_PixelIndexPingPong ==
    BounceLoopDone =>
        /\ WellSplit
        /\ \A p \in Passes :
              /\ PixPre(p) = {<<"pixelindices", (p + 1) % 2>>}
              /\ PixPost(p) = {<<"pixelindices", p % 2>>}
              /\ ArgsAt(p, {"RestorePixelIndices"}, 3) \cap ArgsAt(p, {"RestorePixelIndices"}, 4) = {}
              /\ (p + 1) \in Passes => PixPre(p + 1) = ArgsAt(p, {"RestorePixelIndices"}, 4)

C6_Witness ==
    /\ BounceLoopDone
    /\ WellSplit
    /\ m_num_bounces = 2
    /\ scene.envmapidx >= 0
    /\ PixPre(1) = {<<"pixelindices", 0>>}
    /\ KernelsOf(1, "ShadeMiss") # {}

\* the output slot rebound by a step
Rebound == CHOOSE t \in OutputTypes : m_outputs'[t] # m_outputs[t]

\* C8: SetOutput(type, o) calls ResizeWorkingSet iff no output is bound for
\* that type or the bound one is smaller than o in width or in height; the
\* output is bound afterwards.
C8_ResizeIff ==
    [][/\ m_outputs' = m_outputs => rd' = rd
       /\ m_outputs' # m_outputs =>
             /\ (rd' # rd) <=> \/ m_outputs[Rebound] = NoOutput
                               \/ m_outputs[Rebound].w < m_outputs'[Rebound].w
                               \/ m_outputs[Rebound].h < m_outputs'[Rebound].h
             /\ m_outputs'[Rebound] # NoOutput]_vars

\* binding a small, then the largest, then the smallest output to the color
\* slot: two reallocations, the working set keeps the largest size
C8_Witness ==
    /\ m_outputs[kColor] = [w |-> 1, h |-> 1]
    /\ \A t \in OutputTypes \ {kColor} : m_outputs[t] = NoOutput
    /\ nresize = 2
    /\ rd[<<"rays", 0>>].count = MaxOutDim * MaxOutDim

\* C9: over any sequence of SetOutput calls the pixel capacity of the
\* working-set buffers never decreases.
C9_NeverShrinks ==
    [][\A k \in WSKeys : rd'[k].count >= rd[k].count]_vars

FrPairs ==
    { << <<"fr_rays", 0>>, <<"rays", 0>> >>,
      << <<"fr_rays", 1>>, <<"rays", 1>> >>,
      << <<"fr_shadowrays", 0>>, <<"shadowrays", 0>> >>,
      << <<"fr_hits", 0>>, <<"hits", 0>> >>,
      << <<"fr_shadowhits", 0>>, <<"shadowhits", 0>> >>,
      << <<"fr_intersections", 0>>, <<"intersections", 0>> >>,
      << <<"fr_hitcount", 0>>, <<"hitcount", 0>> >> }

\* C10: after ResizeWorkingSet each of the seven ray-engine handles is bound
\* to the current allocation of its compute-API buffer, every previous
\* handle has been deleted exactly once, and no handle that is still alive
\* refers to a replaced allocation.
C10_HandlesRebound ==
    nresize > 0 =>
        /\ \A pr \in FrPairs :
              /\ fr[pr[1]] \in DOMAIN handles
              /\ handles[fr[pr[1]]].alloc = rd[pr[2]].id
              /\ handles[fr[pr[1]]].deleted = 0
        /\ \A h \in DOMAIN handles :
              h \notin {fr[k] : k \in FrKeys} => handles[h].deleted = 1
        /\ \A h \in DOMAIN handles :
              handles[h].deleted = 0 => \E k \in WSKeys : rd[k].id = handles[h].alloc

C10_Witness ==
    /\ nresize = 2
    /\ Len(handles) = 14
    /\ handles[1].deleted = 1

(***************************************************************************)
(* Stream invariants, checked under SpecFrame.                             *)
(***************************************************************************)
NumPixels == ColorOutput.w * ColorOutput.h
AfterRestore == pc \in {"shadevol", "shadesurf", "bg", "occl", "gather", "flush"}

\* C4: after RestorePixelIndices in pass p the first hitcount entries of
\* pixelindices[p&1] are pairwise distinct values in 0..N-1.
C4_DistinctPixels ==
    AfterRestore =>
        /\ dev.hitcount \in 0 .. NumPixels
        /\ \A i \in Prefix(dev.hitcount) : dev.pix[pass % 2][i] \in 0 .. (NumPixels - 1)
        /\ \A i, j \in Prefix(dev.hitcount) :
              i # j => dev.pix[pass % 2][i] # dev.pix[pass % 2][j]

C4_Witness ==
    /\ pc = "shadevol"
    /\ pass = 1
    /\ dev.hitcount >= 1
    /\ dev.pix[1][0] # 0
    /\ dev.pix[0] # dev.iota

\* C5 as stated: after the Compact step of pass k, hitcount <= N and for
\* every i < hitcount the path slot compacted_indices[i] has its alive flag set.
C5_AliveAtCompactedIndex ==
    pc = "restore" =>
        /\ dev.hitcount <= NumPixels
        /\ \A i \in Prefix(dev.hitcount) : At(dev.alive, At(dev.compacted, i)) = TRUE

\* C5 amended: after the Compact step of pass k, hitcount <= N and for every
\* i < hitcount the path of the pixel held by pre-compaction slot
\* compacted_indices[i], paths[pixelindices[(k+1)&1][compacted_indices[i]]],
\* has its alive flag set.
C5_AliveAtCompactedPixel ==
    pc = "restore" =>
        /\ dev.hitcount <= NumPixels
        /\ \A i \in Prefix(dev.hitcount) :
              At(dev.alive, At(dev.pix[(pass + 1) % 2], At(dev.compacted, i))) = TRUE

C5_Witness ==
    /\ pc = "restore"
    /\ pass >= 1
    /\ dev.hitcount >= 1
    /\ dev.compacted[0] # dev.pix[(pass + 1) % 2][dev.compacted[0]]

\* the path of pixel p is carried by the stream that bounce `pass` consumes:
\* its alive flag is set and one of the first hitcount rays of rays[pass&1]
\* is its ray
InStream(p) == \E i \in Prefix(dev.hitcount) : At(dev.rays[pass % 2], i) = p
PathAlive(p) == dev.alive[p] /\ InStream(p)
Listed(t, p) == \E i \in Prefix(dev.hitcount) : At(dev.pix[t], i) = p

\* C7 as stated: on entry to bounce k a path is alive iff its alive flag is
\* set and its pixel index is among the first hitcount entries of
\* pixelindices[k&1].
C7_AliveIffListedSameParity ==
    pc = "fillhits" =>
        \A p \in DOMAIN dev.alive : PathAlive(p) <=> (dev.alive[p] /\ Listed(pass % 2, p))

\* C7 amended: on entry to bounce k a path is alive iff its alive flag is
\* set and its pixel index is among the first hitcount entries of
\* pixelindices[(k+1)&1], the table the kernels of bounce k read before
\* compaction.
C7_AliveIffListedPreTable ==
    pc = "fillhits" =>
        \A p \in DOMAIN dev.alive : PathAlive(p) <=> (dev.alive[p] /\ Listed((pass + 1) % 2, p))

C7_Witness ==
    /\ pc = "fillhits"
    /\ pass = 1
    /\ dev.hitcount = 1
    /\ \E p \in DOMAIN dev.alive : PathAlive(p) /\ ~Listed(pass % 2, p)
    /\ \E p \in DOMAIN dev.alive : dev.alive[p] /\ ~InStream(p)

(***************************************************************************)
(* Render and the frame counter.                                           *)
(***************************************************************************)
NoOutputBound == \A t \in OutputTypes : m_outputs[t] = NoOutput
AovBound == \E t \in OutputTypes \ {kColor} : m_outputs[t] # NoOutput
InRender == pc \notin {"idle", "bench", "bench_done"}
Launches == {i \in DOMAIN log : log[i].op \in {"Launch1D", "Launch2D"}}
ArgValues(i, name) ==
    {log[i].args[j][2] : j \in {n \in DOMAIN log[i].args : log[i].args[n][1] = name}}

\* C11: a Render call made while no output is bound enqueues nothing and
\* leaves framecnt and the working-set buffers as they were.
C11_NoOutputNoFrame ==
    [][(InRender /\ NoOutputBound) =>
          /\ log' = <<>>
          /\ m_framecnt' = m_framecnt
          /\ rd' = rd]_vars

\* C12: framecnt is the number of Render calls that returned since the last
\* Clear (0 right after Clear); SetOutput, SetNumBounces and RunBenchmark
\* leave it alone; every kernel enqueued by the running call that takes
\* framecnt received the value framecnt still has.
C12_FrameCount ==
    /\ m_framecnt = nrender
    /\ \A i \in Launches : ArgValues(i, "m_framecnt") \subseteq {m_framecnt}

C12_Witness ==
    /\ pc = "bench_done"
    /\ nrender = 1
    /\ m_num_bounces # 0
    /\ AovBound
    /\ \E i \in Launches : ArgValues(i, "m_framecnt") = {1}

\* the number of commands of the color part of a Render
ColorLen ==
    IF m_outputs[kColor] = NoOutput THEN 0
    ELSE IF m_num_bounces = 0 THEN 4 ELSE PassEnd(m_num_bounces - 1)

AovCmds == SubSeq(log, ColorLen + 1, Len(log))

\* C13: when Render has enqueued everything, the queue ends in the AOV pass
\* iff some non-color slot is bound; the pass follows the color part and is
\* exactly GeneratePaths, intersection query on rays[0], FillAOVs, Flush;
\* FillAOVs has, after its 19 fixed arguments, one (enable, buffer) pair per
\* non-color slot with enable = 1 iff the slot is bound, the buffer of a
\* bound slot being that slot's output.
C13_AovPass ==
    pc = "inc" =>
        IF AovBound
        THEN /\ Len(AovCmds) = 4
             /\ \E g \in {"PerspectiveCamera_GeneratePaths",
                          "PerspectiveCameraDof_GeneratePaths"} :
                   Sigs(AovCmds) = << K(g), << <<"Intersect", 0>>, <<"rays", 0>> >>,
                                      K("FillAOVs"), K("Flush") >>
             /\ LET a == AovCmds[3].args IN
                /\ Len(a) = 19 + 2 * (NumOutputTypes - 1)
                /\ \A t \in OutputTypes \ {kColor} :
                      /\ a[18 + 2 * t] = <<"int", IF m_outputs[t] # NoOutput THEN 1 ELSE 0>>
                      /\ m_outputs[t] # NoOutput => a[19 + 2 * t] = <<"output", t>>
        ELSE /\ Len(log) = ColorLen
             /\ \A i \in Launches : log[i].kernel # "FillAOVs"

C13_Witness ==
    /\ pc = "inc"
    /\ m_outputs[kColor] # NoOutput
    /\ m_num_bounces = 1
    /\ m_outputs[1] = NoOutput
    /\ m_outputs[2] # NoOutput
    /\ Len(log) = 4 + 12 + 4

SeededKernels ==
    {"PerspectiveCamera_GeneratePaths", "PerspectiveCameraDof_GeneratePaths",
     "EvaluateVolume", "ShadeVolume", "ShadeSurface", "FillAOVs"}
UnseededKernels ==
    {"ShadeMiss", "FilterPathStream", "RestorePixelIndices", "ShadeBackgroundEnvMap",
     "GatherLightSamples"}

\* C14 as stated: every kernel dispatch of the driver is passed a value
\* drawn from rand_uint() for it and framecnt.
C14_EveryDispatchSeeded ==
    \A i \in Launches :
        /\ Cardinality(ArgValues(i, "rand_uint")) = 1
        /\ ArgValues(i, "m_framecnt") = {m_framecnt}

\* C14 amended: the dispatches of GeneratePaths, EvaluateVolume, ShadeVolume,
\* ShadeSurface and FillAOVs are passed framecnt and a value of rand_uint()
\* drawn for that dispatch alone; the dispatches of ShadeMiss,
\* FilterPathStream, RestorePixelIndices, ShadeBackgroundEnvMap and
\* GatherLightSamples are passed neither.
C14_SeededDispatches ==
    \A i \in Launches :
        /\ log[i].kernel \in SeededKernels \cup UnseededKernels
        /\ log[i].kernel \in SeededKernels =>
              /\ Cardinality(ArgValues(i, "rand_uint")) = 1
              /\ ArgValues(i, "m_framecnt") = {m_framecnt}
              /\ \A j \in Launches \ {i} :
                    ArgValues(j, "rand_uint") \cap ArgValues(i, "rand_uint") = {}
        /\ log[i].kernel \in UnseededKernels =>
              /\ ArgValues(i, "rand_uint") = {}
              /\ ArgValues(i, "m_framecnt") = {}

C14_Witness ==
    /\ pc = "inc"
    /\ m_num_bounces = 2
    /\ {log[i].kernel : i \in Launches} \ {"PerspectiveCameraDof_GeneratePaths"} =
          (SeededKernels \cup UnseededKernels) \ {"PerspectiveCameraDof_GeneratePaths"}

(***************************************************************************)
(* IntersectorShortStack.  isect holds m_bvh (the height of the held BVH,  *)
(* NoBvh when null), the three buffer handles of GpuData (0: nullptr,      *)
(* else an index into the device's buffer table), the buffer table, the    *)
(* device's max_alloc_size in bytes, a record of the last call, and the   *)
(* buffers given to kernels enqueued since the last blocking Finish.       *)
(* Buffer sizes are kept in 4-byte words, so that the 32-bit products of   *)
(* the code stay within the integers of the checker: a 32-bit byte count   *)
(* 4 * x wraps at 2^32 exactly when the word count x wraps at 2^30.        *)
(***************************************************************************)
rendererVars == <<m_outputs, m_num_bounces, m_framecnt, rd, fr, handles, nalloc, nresize,
                  nrender, pc, pass, scene, log, nrand, dev>>

NoBvh == [height |-> -1]
\* 2^32 bytes, in words
Words32 == 1073741824

\* kMaxBatchSize * kMaxStackSize * sizeof(int), in bytes
StackBytesNeeded == kMaxBatchSize * kMaxStackSize * SizeofInt

\* device->CreateBuffer(bytes): the table with one more live buffer
CreateBuffer(bufs, words) == Append(bufs, [size |-> words, deleted |-> 0])
\* device->DeleteBuffer(h)
DeleteBuffer(bufs, h) ==
    [i \in DOMAIN bufs |-> IF i = h THEN [bufs[i] EXCEPT !.deleted = @ + 1] ELSE bufs[i]]

NoCall == [op |-> "none", rebuilt |-> FALSE, error |-> "none", has_changed |-> FALSE,
           state_change |-> "None", height |-> 0, maxrays |-> 0, stack |-> 0, gs |-> 0,
           ls |-> 0, blocks |-> <<>>, early |-> {}]

RebuildNeededIgnoresState(i, w) == i.m_bvh = NoBvh \/ w.has_changed

\* Process, line 138
RebuildNeeded(i, w) ==
    i.m_bvh = NoBvh \/ w.has_changed \/ w.state_change # "None"

CannotAllocateStackStrict(i) == i.max_alloc_size < StackBytesNeeded

\* Process, line 149
CannotAllocateStack(i) == i.max_alloc_size <= StackBytesNeeded

TooHighOffByOne(h) == h > kMaxStackSize

\* Process, line 273
TooHigh(h) == h >= kMaxStackSize

\* Process, lines 140-144
ReleaseOld(i) ==
    IF i.m_bvh # NoBvh
    THEN [i EXCEPT !.buffers = DeleteBuffer(DeleteBuffer(@, i.bvh), i.vertices)]
    ELSE i

\* Process, lines 285-287, 397: the vertex and node buffers
Upload(i, w) ==
    LET v == CreateBuffer(i.buffers, (w.numvertices * SizeofFloat3) \div SizeofInt)
        n == CreateBuffer(v, w.numnodes)
    IN [i EXCEPT !.buffers = n, !.vertices = Len(v), !.bvh = Len(n)]

\* Process, lines 400-405: CreateBuffer(kMaxBatchSize * kMaxStackSize) bytes
AllocStack(i) ==
    LET b == IF i.stack # 0 THEN DeleteBuffer(i.buffers, i.stack) ELSE i.buffers
        c == CreateBuffer(b, (kMaxBatchSize * kMaxStackSize) \div SizeofInt)
    IN [i EXCEPT !.buffers = c, !.stack = Len(c)]

\* e->Wait() after MapBuffer and after UnmapBuffer, lines 295 and 340
UploadWaits == <<"Wait:MapBuffer", "Wait:UnmapBuffer">>

ProcessBlocksNoFinish == UploadWaits

\* the blocking calls of a Process that rebuilds and uploads, in program
\* order: the two waits and m_device->Finish(0) at line 408
ProcessBlocks == UploadWaits \o <<"Finish">>

\* the buffers Process hands to DeleteBuffer at lines 142-143 and at line 402
ReleasedOld(i) == IF i.m_bvh # NoBvh THEN {i.bvh, i.vertices} ELSE {}
ReleasedStack(i) == IF i.stack # 0 THEN {i.stack} ELSE {}

\* m_device->Finish(0), line 408: no kernel enqueued before it is pending
AfterFinish == {}

ProcessCall(w, rebuilt, error) ==
    [NoCall EXCEPT !.op = "Process", !.rebuilt = rebuilt, !.error = error,
                   !.has_changed = w.has_changed, !.state_change = w.state_change,
                   !.height = w.height]

\* the driver after Process(world); w gives the world's change flags and
\* what the builder and the translator make of its shapes
Processed(i, w) ==
    IF ~RebuildNeeded(i, w)
    THEN [i EXCEPT !.last = ProcessCall(w, FALSE, "none")]
    ELSE LET r == ReleaseOld(i)
             old == ReleasedOld(i) \cap i.pending
         IN
         IF CannotAllocateStack(r)
         THEN [r EXCEPT !.last = [ProcessCall(w, TRUE, "alloc") EXCEPT !.early = old]]
         ELSE IF TooHigh(w.height)
              THEN [r EXCEPT !.m_bvh = NoBvh,
                             !.last = [ProcessCall(w, TRUE, "height") EXCEPT !.early = old]]
              ELSE [AllocStack(Upload([r EXCEPT !.m_bvh = [height |-> w.height]], w))
                      EXCEPT !.pending = AfterFinish,
                             !.last = [ProcessCall(w, TRUE, "none")
                                          EXCEPT !.blocks = ProcessBlocks,
                                                 !.early = old \cup (ReleasedStack(i)
                                                                       \cap i.pending)]]

\* size_t stack_size = 4 * maxrays * kMaxStackSize, computed in 32 bits
StackSize(maxrays) == (maxrays * kMaxStackSize) % Words32

\* A std::uint32_t value v is held as v when v < 2^31 and as v - 2^32
\* otherwise (the integer with the same 32 bits), so that 32-bit sums are
\* integer sums.  (maxrays + kWorkGroupSize - 1) / kWorkGroupSize, all in
\* unsigned 32 bits: the quotient of the value the 32 bits of the sum stand for
NumGroups(maxrays) ==
    LET sum == maxrays + kWorkGroupSize - 1
    IN IF sum < 0
       THEN sum \div kWorkGroupSize + Words32 \div (kWorkGroupSize \div SizeofInt)
       ELSE sum \div kWorkGroupSize

\* ((maxrays + kWorkGroupSize - 1) / kWorkGroupSize) * kWorkGroupSize
GlobalSize(maxrays) == NumGroups(maxrays) * kWorkGroupSize

GrowStackAlways(i, maxrays) ==
    LET c == CreateBuffer(DeleteBuffer(i.buffers, i.stack), StackSize(maxrays))
    IN [i EXCEPT !.buffers = c, !.stack = Len(c)]

\* Intersect / Occluded, lines 414-421 and 443-450
GrowStack(i, maxrays) ==
    IF StackSize(maxrays) > i.buffers[i.stack].size
    THEN LET c == CreateBuffer(DeleteBuffer(i.buffers, i.stack), StackSize(maxrays))
         IN [i EXCEPT !.buffers = c, !.stack = Len(c)]
    ELSE i

\* SetArg of lines 428-432 and 457-461: the buffers of the driver the
\* kernel is enqueued with; Execute returns without waiting for it
KernelBuffers(i) == {i.bvh, i.vertices, i.stack}

\* the driver after Intersect or Occluded has enqueued func over maxrays rays
Launched(i, func, op, maxrays) ==
    LET g == GrowStack(i, maxrays) IN
    [g EXCEPT !.pending = @ \cup KernelBuffers(g),
              !.last = [NoCall EXCEPT !.op = op, !.maxrays = maxrays, !.stack = g.stack,
                                      !.gs = GlobalSize(maxrays), !.ls = kWorkGroupSize,
                                      !.early = IF g.stack # i.stack
                                                THEN {i.stack} \cap i.pending ELSE {}]]

BvhHeights == {0, kMaxStackSize - 1, kMaxStackSize, kMaxStackSize + 1}
Worlds == [has_changed : BOOLEAN, state_change : {"None", "Transform"},
           height : BvhHeights, numvertices : {0, 3}, numnodes : {1}]
MaxAllocSizes == {StackBytesNeeded - 1, StackBytesNeeded, StackBytesNeeded + 1}
\* batch sizes around the initial stack, around kMaxBatchSize, around the
\* largest batch whose stack size fits 32 bits, and the largest 32-bit
\* values: 2^32 - 63 and 2^32 - 1, held as -63 and -1
MaxRaysValues == {0, 1, kMaxBatchSize \div SizeofInt, kMaxBatchSize \div SizeofInt + 1,
                  kMaxBatchSize, kMaxBatchSize + 1,
                  (Words32 - 1) \div kMaxStackSize, (Words32 - 1) \div kMaxStackSize + 1,
                  1 - kWorkGroupSize, -1}

Isect0(max_alloc_size) ==
    [m_bvh |-> NoBvh, bvh |-> 0, vertices |-> 0, stack |-> 0, buffers |-> <<>>,
     max_alloc_size |-> max_alloc_size, last |-> NoCall, pending |-> {}]

\* the renderer is left out of the specifications of the intersection driver
RendererIdle ==
    /\ m_outputs = [t \in OutputTypes |-> NoOutput]
    /\ m_num_bounces = 0
    /\ m_framecnt = 0
    /\ rd = RenderData0
    /\ fr = FrData0
    /\ handles = <<>>
    /\ nalloc = 0
    /\ nresize = 0
    /\ pc = "idle"
    /\ pass = 0
    /\ scene = NoScene
    /\ log = <<>>
    /\ nrand = 0
    /\ dev = DevNone
    /\ nrender = 0

IsectInit ==
    /\ RendererIdle
    /\ isect \in {Isect0(a) : a \in MaxAllocSizes}
    /\ tr = TrNone

Process ==
    \E w \in Worlds :
        /\ RebuildNeeded(isect, w) => Len(isect.buffers) + 3 <= MaxIsectBufs
        /\ isect' = Processed(isect, w)
        /\ UNCHANGED <<rendererVars, tr>>

\* Intersect and Occluded are called on a driver that holds a stack buffer
QueryIntersect ==
    \E maxrays \in MaxRaysValues :
        /\ isect.stack # 0
        /\ Len(isect.buffers) + 1 <= MaxIsectBufs
        /\ isect' = Launched(isect, "intersect_main", "Intersect", maxrays)
        /\ UNCHANGED <<rendererVars, tr>>

QueryOccluded ==
    \E maxrays \in MaxRaysValues :
        /\ isect.stack # 0
        /\ Len(isect.buffers) + 1 <= MaxIsectBufs
        /\ isect' = Launched(isect, "occluded_main", "Occluded", maxrays)
        /\ UNCHANGED <<rendererVars, tr>>

IsectNext == Process \/ QueryIntersect \/ QueryOccluded

SpecIsect == IsectInit /\ [][IsectNext]_vars

(***************************************************************************)
(* SpecDrivers: both drivers from their initial states.  No operation of   *)
(* one driver reads or writes the state of the other, so each is explored  *)
(* while the other is still as constructed.                                *)
(***************************************************************************)
RendererCall == isect = Isect0(StackBytesNeeded + 1) /\ Next
IsectCall == RendererIdle /\ IsectNext
DriversNext == RendererCall \/ IsectCall

SpecDrivers == IsectInit /\ [][DriversNext]_vars

(***************************************************************************)
(* Process, Intersect and Occluded: the claims.                            *)
(***************************************************************************)
ProcessReturned == isect'.last.op = "Process"
HandlesKept ==
    /\ isect'.bvh = isect.bvh
    /\ isect'.vertices = isect.vertices
    /\ isect'.stack = isect.stack
NoBufferCreated == Len(isect'.buffers) = Len(isect.buffers)
StackWords(i) == i.buffers[i.stack].size

\* C15: Process rebuilds iff no BVH is held or the world has changed or its
\* state change is not None; a Process that does not rebuild raises no
\* error, creates and deletes no buffer and keeps m_bvh and the three buffer
\* handles; a rebuild ends in an error or in new buffers.
C15_RebuildIff ==
    [][ProcessReturned =>
          LET skip == /\ isect.m_bvh # NoBvh
                      /\ ~isect'.last.has_changed
                      /\ isect'.last.state_change = "None"
          IN /\ isect'.last.rebuilt <=> ~skip
             /\ skip => /\ isect'.last.error = "none"
                        /\ isect'.buffers = isect.buffers
                        /\ isect'.m_bvh = isect.m_bvh
                        /\ HandlesKept
             /\ ~skip => isect'.last.error # "none" \/ ~NoBufferCreated]_vars

C15_Witness ==
    /\ isect.last.op = "Process"
    /\ ~isect.last.rebuilt
    /\ isect.m_bvh.height = kMaxStackSize - 1
    /\ isect.buffers[isect.bvh].deleted = 0

\* C16: a rebuilding Process fails with the allocation error iff the
\* device's max_alloc_size is at most 1048576 * 48 * 4 bytes, and then no
\* BVH has been built and no buffer created: m_bvh, the buffer table and
\* the handles are as before the call.
C16_AllocCheckFirst ==
    [][(ProcessReturned /\ isect'.last.rebuilt) =>
          /\ isect'.last.error = "alloc" <=> isect.max_alloc_size <= 1048576 * 48 * 4
          /\ isect'.last.error = "alloc" =>
                /\ isect'.m_bvh = isect.m_bvh
                /\ isect'.buffers = isect.buffers
                /\ HandlesKept]_vars

C16_Witness ==
    /\ isect.last.op = "Process"
    /\ isect.last.error = "alloc"
    /\ isect.max_alloc_size = 1048576 * 48 * 4

\* C17: a rebuilding Process that passes the allocation check and builds a
\* BVH of height >= 48 ends with m_bvh null and the height error, having
\* created no buffer; a Process that returns normally leaves a BVH of
\* height < 48 held; the Process call after a height failure rebuilds
\* whatever the world's change flags are.
C17_HeightCheck ==
    [][ProcessReturned =>
          /\ (isect'.last.rebuilt /\ isect'.last.error # "alloc") =>
                (isect'.last.error = "height" <=> isect'.last.height >= 48)
          /\ isect'.last.error = "height" =>
                /\ isect'.m_bvh = NoBvh
                /\ NoBufferCreated
                /\ HandlesKept
          /\ isect'.last.error = "none" =>
                /\ isect'.m_bvh # NoBvh
                /\ isect'.m_bvh.height < 48
          /\ isect.last.error = "height" => isect'.last.rebuilt]_vars

C17_Witness ==
    /\ isect.last.op = "Process"
    /\ isect.last.error = "height"
    /\ isect.last.height = 48
    /\ ~isect.last.has_changed
    /\ Len(isect.buffers) = 3

\* C18: after a successful rebuilding Process the stack handle names a live
\* buffer of kMaxBatchSize * kMaxStackSize * sizeof(int) bytes, and a stack
\* buffer held before the call is still the one held.
C18_StackAllocatedOnce ==
    [][(ProcessReturned /\ isect'.last.rebuilt /\ isect'.last.error = "none") =>
          /\ isect'.stack # 0
          /\ isect'.buffers[isect'.stack].deleted = 0
          /\ StackWords(isect') * SizeofInt = kMaxBatchSize * kMaxStackSize * SizeofInt
          /\ isect.stack # 0 => isect'.stack = isect.stack]_vars

\* C19: when Intersect or Occluded launches its kernel over maxrays rays, the
\* stack buffer is live and holds at least 4 * maxrays * kMaxStackSize
\* bytes; the call replaces the stack buffer only if it was smaller than
\* that, and never by a smaller one.
C19_StackLargeEnough ==
    [][isect'.last.op \in {"Intersect", "Occluded"} =>
          /\ isect'.buffers[isect'.stack].deleted = 0
          /\ StackWords(isect') >= isect'.last.maxrays * kMaxStackSize
          /\ StackWords(isect') >= StackWords(isect)
          /\ isect'.stack # isect.stack =>
                StackWords(isect) < isect'.last.maxrays * kMaxStackSize]_vars

(***************************************************************************)
(* Process, lines 154-228 and 345-394: the shape partition, the start      *)
(* indices and the face table.  A shape is [id, inst, faces, verts]: its   *)
(* GetId(), is_instance(), and the face and vertex counts of its mesh (of  *)
(* the base mesh for an instance).  Sequences are 1-based: position k      *)
(* stands for index k - 1 of the code.                                     *)
(***************************************************************************)
ShapeId(k) == 100 + k
\* the world's base meshes, one for each face count: instances with equal
\* face counts are instances of one base mesh; a mesh is its own base
BaseMeshId(faces) == 200 + faces
ShapeSeqs(n) ==
    {[k \in 1 .. n |-> [id |-> ShapeId(k), inst |-> f[k].inst, faces |-> f[k].faces,
                        verts |-> 3,
                        base |-> IF f[k].inst THEN BaseMeshId(f[k].faces) ELSE ShapeId(k)]] :
        f \in [1 .. n -> [inst : BOOLEAN, faces : 0 .. MaxFaces]]}

\* mesh->GetFaceData()[faceidx].idx, line 378: the mesh-local vertex indices
\* of a face, each below the mesh's vertex count
FaceData(mesh, faceidx) == [k \in 1 .. 3 |-> (faceidx + k - 1) % mesh.verts]
WorldShapes == UNION {ShapeSeqs(n) : n \in 0 .. MaxShapes}

IsPermutation(p, n) == p \in [1 .. n -> 1 .. n] /\ \A a, b \in 1 .. n : a # b => p[a] # p[b]

\* std::partition, lines 196-200: some arrangement of the shapes with every
\* non-instance before every instance
Partitions(shapes) ==
    LET n == Len(shapes) IN
    {[k \in 1 .. n |-> shapes[p[k]]] :
        p \in {q \in [1 .. n -> 1 .. n] :
                  /\ IsPermutation(q, n)
                  /\ \A a, b \in 1 .. n :
                        (~shapes[q[a]].inst /\ shapes[q[b]].inst) => a < b}}

\* std::upper_bound, line 361: the first position whose element is greater
\* than g, the end if there is none
UpperBound(starts, g) ==
    IF \E k \in DOMAIN starts : starts[k] > g
    THEN CHOOSE k \in DOMAIN starts : starts[k] > g /\ \A j \in 1 .. (k - 1) : starts[j] <= g
    ELSE Len(starts) + 1

FaceIdxLocal(t, shapeidx, faceidx) == FaceData(t.part[shapeidx], faceidx)

\* lines 377-387: the vertex indices of the emitted Face
FaceIdx(t, shapeidx, faceidx) ==
    LET myfacedata == FaceData(t.part[shapeidx], faceidx)
        mystartidx == t.vstart[shapeidx]
    IN [k \in 1 .. 3 |-> myfacedata[k] + mystartidx]

EmitFaceAbsoluteIndex(t, g) ==
    LET shapeidx == UpperBound(t.fstart, g) - 1
        faceidx == g - t.fstart[shapeidx]
    IN [idx |-> FaceIdx(t, shapeidx, faceidx), shapeidx |-> t.part[shapeidx].id, id |-> g]

\* lines 358-390: the Face emitted for reordering entry g
EmitFace(t, g) ==
    LET shapeidx == UpperBound(t.fstart, g) - 1
        faceidx == g - t.fstart[shapeidx]
    IN [idx |-> FaceIdx(t, shapeidx, faceidx), shapeidx |-> t.part[shapeidx].id,
        id |-> faceidx]

Tr0(shapes) ==
    [pc |-> "partition", shapes |-> shapes, part |-> <<>>, fstart |-> <<>>,
     vstart |-> <<>>, numfaces |-> 0, numvertices |-> 0, numindices |-> 0,
     reordering |-> <<>>, facedata |-> <<>>, m |-> 0, iter |-> <<>>, vertexdata |-> <<>>,
     oob |-> {}, bounds |-> <<>>, biter |-> <<>>]

FacesInit ==
    /\ RendererIdle
    /\ isect = IsectNone
    /\ tr \in {Tr0(shapes) : shapes \in WorldShapes}

TrStep(t) == tr' = t /\ UNCHANGED <<rendererVars, isect>>

\* lines 194-205
TrPartition ==
    /\ tr.pc = "partition"
    /\ \E part \in Partitions(tr.shapes) :
          TrStep([tr EXCEPT !.part = part, !.pc = "count"])

\* lines 207-228: one iteration of the two counting loops
TrCountShape ==
    /\ tr.pc = "count"
    /\ Len(tr.fstart) < Len(tr.part)
    /\ LET mesh == tr.part[Len(tr.fstart) + 1] IN
       TrStep([tr EXCEPT !.fstart = Append(@, tr.numfaces),
                         !.vstart = Append(@, tr.numvertices),
                         !.numfaces = @ + mesh.faces,
                         !.numvertices = @ + mesh.verts])

\* &v[0] of a std::vector of the given size, lines 266 and 393: element 0
\* of an empty vector does not exist
ElementZero(name, size) == IF size = 0 THEN {<<name, 0>>} ELSE {}

\* what follows the evaluation of &v[0]: on an empty vector the behaviour is
\* undefined; a build with checked containers stops there, others go on
AfterElementZero(size, next) == IF size = 0 THEN {"aborted", next} ELSE {next}

\* lines 266 and 348: Build(&bounds[0], numfaces); the builder fixes the
\* number of primitive references
TrBuild ==
    /\ tr.pc = "count"
    /\ Len(tr.fstart) = Len(tr.part)
    /\ \E numindices \in 0 .. MaxIndices, to \in AfterElementZero(tr.numfaces, "faces") :
          /\ tr.numfaces = 0 => numindices = 0
          /\ to = "aborted" => numindices = 0
          /\ TrStep([tr EXCEPT !.numindices = numindices,
                               !.oob = @ \cup ElementZero("bounds", tr.numfaces),
                               !.pc = to])

\* lines 356-391: one iteration of the face loop; g is reordering[i]
TrEmitFace ==
    /\ tr.pc = "faces"
    /\ Len(tr.facedata) < tr.numindices
    /\ \E g \in 0 .. (tr.numfaces - 1) :
          TrStep([tr EXCEPT !.reordering = Append(@, g),
                            !.facedata = Append(@, EmitFace(tr, g))])

\* line 393: translator.InjectIndices(&facedata[0])
TrInjectIndices ==
    /\ tr.pc = "faces"
    /\ Len(tr.facedata) = tr.numindices
    /\ \E to \in AfterElementZero(tr.numindices, "done") :
          TrStep([tr EXCEPT !.oob = @ \cup ElementZero("facedata", tr.numindices),
                            !.pc = to])

FacesNext == TrPartition \/ TrCountShape \/ TrBuild \/ TrEmitFace \/ TrInjectIndices

SpecFaces == FacesInit /\ [][FacesNext]_vars

RECURSIVE FacesBefore(_, _)
\* the number of faces of the shapes before position s of the partitioned array
FacesBefore(part, s) == IF s <= 1 THEN 0 ELSE FacesBefore(part, s - 1) + part[s - 1].faces

Owners(part, g) ==
    {s \in DOMAIN part : FacesBefore(part, s) <= g /\ g < FacesBefore(part, s) + part[s].faces}

\* C20: every emitted Face of an entry g of the reordering names the id of
\* the one shape whose face range holds g and the face's index within that
\* shape, also with shapes of zero faces around; entries with the same g
\* yield the same Face.
C20_FaceRoundTrip ==
    \A i \in DOMAIN tr.facedata :
        LET g == tr.reordering[i]
            face == tr.facedata[i]
        IN /\ Cardinality(Owners(tr.part, g)) = 1
           /\ \A s \in Owners(tr.part, g) :
                 /\ face.shapeidx = tr.part[s].id
                 /\ face.id = g - FacesBefore(tr.part, s)
                 /\ 0 <= face.id /\ face.id < tr.part[s].faces
           /\ \A j \in DOMAIN tr.facedata : tr.reordering[j] = g => tr.facedata[j] = face

C20_Witness ==
    /\ tr.pc = "done"
    /\ Len(tr.part) = 2
    /\ tr.part[1].faces = 0
    /\ tr.part[2].inst
    /\ tr.part[2].faces = 2
    /\ tr.reordering = <<1, 1>>
    /\ tr.facedata[1].shapeidx = tr.part[2].id
    /\ tr.facedata[1].id = 1

RECURSIVE VerticesBefore(_, _)
\* the number of vertices of the shapes before position s of the partitioned array
VerticesBefore(part, s) ==
    IF s <= 1 THEN 0 ELSE VerticesBefore(part, s - 1) + part[s - 1].verts

Owner(part, g) == CHOOSE s \in Owners(part, g) : TRUE

\* C21: every vertex index of an emitted Face is the mesh-local index of the
\* face plus the number of vertices of the shapes before the owning shape, so
\* it lies in the owner's vertex block and below the uploaded vertex count;
\* Faces of different shapes have indices in disjoint blocks, and two
\* instances of one base mesh emit, for the same face of the base mesh,
\* Faces with equal id, different shapeidx and different vertex indices.
C21_GlobalVertexIndices ==
    \A i \in DOMAIN tr.facedata :
        LET s == Owner(tr.part, tr.reordering[i])
            face == tr.facedata[i]
            lo == VerticesBefore(tr.part, s)
        IN /\ \A k \in 1 .. 3 :
                 /\ face.idx[k] = FaceData(tr.part[s], face.id)[k] + lo
                 /\ lo <= face.idx[k] /\ face.idx[k] < lo + tr.part[s].verts
                 /\ face.idx[k] < tr.numvertices
           /\ \A j \in DOMAIN tr.facedata :
                 LET t == Owner(tr.part, tr.reordering[j])
                     other == tr.facedata[j]
                 IN t # s =>
                       /\ \A k, l \in 1 .. 3 : face.idx[k] # other.idx[l]
                       /\ face.shapeidx # other.shapeidx
                       /\ (tr.part[s].base = tr.part[t].base /\ face.id = other.id) =>
                             \A k \in 1 .. 3 :
                                 face.idx[k] - lo
                                     = other.idx[k] - VerticesBefore(tr.part, t)

C21_Witness ==
    /\ tr.pc = "done"
    /\ Len(tr.part) = 2
    /\ tr.part[1].inst /\ tr.part[2].inst
    /\ tr.part[1].base = tr.part[2].base
    /\ tr.part[1].faces = 2
    /\ tr.reordering = <<1, 3>>
    /\ tr.facedata[1].id = tr.facedata[2].id
    /\ tr.facedata[1].idx = <<1, 2, 0>>
    /\ tr.facedata[2].idx = <<4, 5, 3>>

(***************************************************************************)
(* Process, lines 285-342: the vertex upload.  matrix m, minv is declared  *)
(* at line 300, outside the two omp parallel for loops, so all iterations  *)
(* of a loop share it.  tr.m is the shape whose transform m holds (0: none *)
(* yet), tr.iter[i] the position of iteration i (0: before GetTransform,   *)
(* k: about to write vertex k - 1, verts + 1: finished), and an uploaded   *)
(* vertex is [base, j, m]: vertex j of mesh base transformed by m.         *)
(***************************************************************************)
NoVertex == [base |-> 0, j |-> -1, m |-> 0]

\* transform_point(myvertexdata[j], m), lines 316 and 335
TransformPoint(shape, j, m) == [base |-> shape.base, j |-> j, m |-> m]

UploadWorlds == {shapes \in WorldShapes : \A k \in DOMAIN shapes : shapes[k].faces = 1}

UploadInit ==
    /\ RendererIdle
    /\ isect = IsectNone
    /\ tr \in {Tr0(shapes) : shapes \in UploadWorlds}

\* the iterations of the loop that is running: lines 303 and 321
LoopRange(t) ==
    {i \in DOMAIN t.part :
        t.part[i].inst <=> (t.pc \in {"upload_instances", "bounds_instances"})}

\* lines 287-296: the vertex buffer is created and mapped
TrMapVertices ==
    /\ tr.pc = "count"
    /\ Len(tr.fstart) = Len(tr.part)
    /\ TrStep([tr EXCEPT !.vertexdata = [k \in 1 .. tr.numvertices |-> NoVertex],
                         !.iter = [i \in DOMAIN tr.part |-> 0],
                         !.pc = "upload_meshes"])

\* lines 310 and 329: an iteration stores its shape's transform in the shared m
TrGetTransform ==
    /\ tr.pc \in {"upload_meshes", "upload_instances"}
    /\ \E i \in LoopRange(tr) :
          /\ tr.iter[i] = 0
          /\ TrStep([tr EXCEPT !.m = tr.part[i].id, !.iter[i] = 1])

\* lines 314-317 and 333-336: an iteration writes its next vertex
TrTransformPoint ==
    /\ tr.pc \in {"upload_meshes", "upload_instances"}
    /\ \E i \in LoopRange(tr) :
          /\ tr.iter[i] >= 1
          /\ tr.iter[i] <= tr.part[i].verts
          /\ LET j == tr.iter[i] - 1 IN
             TrStep([tr EXCEPT !.vertexdata[tr.vstart[i] + j + 1] =
                                    TransformPoint(tr.part[i], j, tr.m),
                               !.iter[i] = @ + 1])

LoopDone(t) == \A i \in LoopRange(t) : t.iter[i] = t.part[i].verts + 1

\* the end of the parallel loop over the meshes, line 318
TrEndMeshLoop ==
    /\ tr.pc = "upload_meshes"
    /\ LoopDone(tr)
    /\ TrStep([tr EXCEPT !.pc = "upload_instances"])

\* lines 337-341: the end of the loop over the instances, and the unmap
TrUnmapVertices ==
    /\ tr.pc = "upload_instances"
    /\ LoopDone(tr)
    /\ TrStep([tr EXCEPT !.pc = "uploaded"])

UploadNext ==
    \/ TrPartition
    \/ TrCountShape
    \/ TrMapVertices
    \/ TrGetTransform
    \/ TrTransformPoint
    \/ TrEndMeshLoop
    \/ TrUnmapVertices

SpecUpload == UploadInit /\ [][UploadNext]_vars

\* C22: under every interleaving of the iterations of the upload loops, every
\* vertex written to the mapped buffer is the source vertex of the shape
\* owning that place of the buffer, transformed by that shape's own transform.
C22_OwnTransform ==
    tr.pc \in {"upload_meshes", "upload_instances", "uploaded"} =>
        \A i \in DOMAIN tr.part : \A j \in 0 .. (tr.part[i].verts - 1) :
            LET v == tr.vertexdata[VerticesBefore(tr.part, i) + j + 1] IN
            v # NoVertex => v = [base |-> tr.part[i].base, j |-> j, m |-> tr.part[i].id]

(***************************************************************************)
(* Host blocking.                                                          *)
(***************************************************************************)
FinishIdx == {i \in DOMAIN log : log[i].op = "Finish"}
TimedQuery(i) == log[i].op \in {"QueryIntersection", "QueryOcclusion"}

\* only RunBenchmark enqueues Finish, three times: each of its first three
\* runs of queries is closed by a Finish, and no query follows a Finish
\* directly
RendererBlocksOnlyInBenchmark ==
    /\ FinishIdx # {} => pc = "bench_done"
    /\ pc = "bench_done" =>
          /\ Cardinality(FinishIdx) = 3
          /\ \A i \in DOMAIN log :
                (TimedQuery(i) /\ Cardinality({f \in FinishIdx : f < i}) < 3) =>
                    TimedQuery(i + 1) \/ log[i + 1].op = "Finish"
    /\ \A i \in FinishIdx : i < Len(log) /\ ~TimedQuery(i + 1)

\* C23 as stated: the renderer blocks only in RunBenchmark's Finish calls,
\* and the intersection driver only in the two waits of the vertex upload.
C23_BlocksOnlyAtBenchmarkAndUpload ==
    /\ RendererBlocksOnlyInBenchmark
    /\ isect.last.blocks \in {<<>>, <<"Wait:MapBuffer", "Wait:UnmapBuffer">>}

\* C23: the renderer blocks only in the three Finish calls that close the
\* timed sections of RunBenchmark; a Process that rebuilds and passes both
\* checks blocks in the wait after MapBuffer, the wait after UnmapBuffer and
\* a final Finish(0), in this order; a Process that does not rebuild or
\* fails, Intersect and Occluded do not block.
C23_BlockingPoints ==
    /\ RendererBlocksOnlyInBenchmark
    /\ isect.last.blocks =
          IF isect.last.op = "Process" /\ isect.last.rebuilt /\ isect.last.error = "none"
          THEN <<"Wait:MapBuffer", "Wait:UnmapBuffer", "Finish">>
          ELSE <<>>

C23_Witness ==
    /\ isect.last.op = "Process"
    /\ isect.last.blocks # <<>>
    /\ isect.last.blocks[Len(isect.last.blocks)] = "Finish"
    /\ Len(isect.buffers) = 6

(***************************************************************************)
(* SpecCompact: the Compact call of line 207 on a working set of N items   *)
(* whose hits buffer holds any predicate array.                            *)
(***************************************************************************)
CompactInputs ==
    UNION {{[Dev0(n) EXCEPT !.hits = h] : h \in [0 .. (n - 1) -> {0, 1}]} : n \in 0 .. MaxItems}

CompactInit ==
    /\ m_outputs = [t \in OutputTypes |-> NoOutput]
    /\ m_num_bounces = 0
    /\ m_framecnt = 0
    /\ rd = RenderData0
    /\ fr = FrData0
    /\ handles = <<>>
    /\ nalloc = 0
    /\ nresize = 0
    /\ pc = "compact"
    /\ pass = 0
    /\ scene = NoScene
    /\ log = <<>>
    /\ nrand = 0
    /\ dev \in CompactInputs
    /\ nrender = 0
    /\ isect = IsectNone
    /\ tr = TrNone

ApplyCompact == EnqCompact /\ dev' = DevCompactCmd(dev, CompactCmd)

SpecCompact == CompactInit /\ [][ApplyCompact]_vars

C25_EmptyWorld ==
    tr.shapes = <<>> =>
        /\ tr.pc # "aborted"
        /\ tr.oob = {}
        /\ tr.pc = "done" =>
              /\ tr.numfaces = 0
              /\ tr.numvertices = 0
              /\ tr.facedata = <<>>

(***************************************************************************)
(* Launch sizes.                                                           *)
(***************************************************************************)
\* x >= n for a launch size x and a 32-bit item count n (held as n - 2^32
\* when n >= 2^31, which exceeds every launch size of the model)
AtLeast(x, n) == n >= 0 /\ x >= n

\* gs is the smallest multiple of k that is >= n
SmallestMultiple(gs, k, n) ==
    /\ gs % k = 0
    /\ AtLeast(gs, n)
    /\ ~AtLeast(gs - k, n)

\* C26: every 1-D launch of the renderer over the w*h items of its output
\* (the color output, or the first bound AOV output when no color is bound)
\* and every Intersect / Occluded launch over maxrays items has local size
\* 64 and as global size the smallest multiple of 64 >= the item count; the
\* ray-generation launch is 2-D with local size 8x8 and global sizes the
\* smallest multiples of 8 >= w and >= h.
C26_LaunchSizes ==
    /\ \A i \in DOMAIN log :
          /\ log[i].op = "Launch1D" =>
                /\ log[i].ls = <<64>>
                /\ Len(log[i].gs) = 1
                /\ SmallestMultiple(log[i].gs[1], 64, AovOutput.w * AovOutput.h)
          /\ log[i].op = "Launch2D" =>
                /\ log[i].ls = <<8, 8>>
                /\ Len(log[i].gs) = 2
                /\ SmallestMultiple(log[i].gs[1], 8, AovOutput.w)
                /\ SmallestMultiple(log[i].gs[2], 8, AovOutput.h)
    /\ isect.last.op \in {"Intersect", "Occluded"} =>
          /\ isect.last.ls = 64
          /\ SmallestMultiple(isect.last.gs, 64, isect.last.maxrays)

(***************************************************************************)
(* SpecPartition: std::partition of lines 196-200 as the standard          *)
(* libraries implement it for the iterators of a std::vector: the first    *)
(* element failing the predicate is swapped with the last one satisfying   *)
(* it, until the two positions meet.                                       *)
(***************************************************************************)
IsMeshInverted(shape) == shape.inst

\* the predicate of line 199
IsMesh(shape) == ~shape.inst

Swap(s, a, b) ==
    [k \in DOMAIN s |-> IF k = a THEN s[b] ELSE IF k = b THEN s[a] ELSE s[k]]

\* the first position in first .. last - 1 whose shape fails the predicate
FirstOther(s, first, last) ==
    IF \E i \in first .. (last - 1) : ~IsMesh(s[i])
    THEN CHOOSE i \in first .. (last - 1) :
             ~IsMesh(s[i]) /\ \A j \in first .. (i - 1) : IsMesh(s[j])
    ELSE last

\* the last position in first + 1 .. last - 1 whose shape satisfies it
LastMesh(s, first, last) ==
    IF \E i \in (first + 1) .. (last - 1) : IsMesh(s[i])
    THEN CHOOSE i \in (first + 1) .. (last - 1) :
             IsMesh(s[i]) /\ \A j \in (i + 1) .. (last - 1) : ~IsMesh(s[j])
    ELSE first

RECURSIVE StdPartition(_, _, _)
StdPartition(s, first, last) ==
    LET a == FirstOther(s, first, last) IN
    IF a = last THEN s
    ELSE LET b == LastMesh(s, a, last) IN
         IF b = a THEN s ELSE StdPartition(Swap(s, a, b), a + 1, b)

PartitionWorlds ==
    UNION {{[k \in 1 .. n |-> [id |-> ShapeId(k), inst |-> f[k], faces |-> 1, verts |-> 3,
                               base |-> IF f[k] THEN BaseMeshId(1) ELSE ShapeId(k)]] :
               f \in [1 .. n -> BOOLEAN]} : n \in 0 .. MaxPartShapes}

PartitionInit ==
    /\ RendererIdle
    /\ isect = IsectNone
    /\ tr \in {Tr0(shapes) : shapes \in PartitionWorlds}

\* lines 194-205
TrStdPartition ==
    /\ tr.pc = "partition"
    /\ TrStep([tr EXCEPT !.part = StdPartition(tr.shapes, 1, Len(tr.shapes) + 1),
                         !.pc = "count"])

SpecPartition == PartitionInit /\ [][TrStdPartition]_vars

Meshes(s) == {k \in DOMAIN s : ~s[k].inst}
Instances(s) == {k \in DOMAIN s : s[k].inst}

\* every non-instance precedes every instance
MeshesFirst(part) == \A a \in Meshes(part), b \in Instances(part) : a < b

\* C27 as stated: in the partitioned array every non-instance precedes every
\* instance, and the meshes among themselves and the instances among
\* themselves are in the order of world.shapes_ (whose k-th shape has id
\* ShapeId(k)).
C27_StablePartition ==
    tr.pc = "count" =>
        /\ MeshesFirst(tr.part)
        /\ \A a, b \in DOMAIN tr.part :
              (a < b /\ tr.part[a].inst = tr.part[b].inst) => tr.part[a].id < tr.part[b].id

\* C27: the partitioned array holds every shape of world.shapes_ exactly
\* once, every non-instance before every instance, with as many meshes and
\* instances as the world has.
C27_Partitioned ==
    tr.pc = "count" =>
        /\ MeshesFirst(tr.part)
        /\ Len(tr.part) = Len(tr.shapes)
        /\ \A k \in DOMAIN tr.shapes :
              Cardinality({a \in DOMAIN tr.part : tr.part[a] = tr.shapes[k]}) = 1
        /\ Cardinality(Meshes(tr.part)) = Cardinality(Meshes(tr.shapes))
        /\ tr.part \in Partitions(tr.shapes)

C27_Witness ==
    /\ tr.pc = "count"
    /\ Len(tr.shapes) = 3
    /\ tr.shapes[1].inst /\ ~tr.shapes[2].inst /\ ~tr.shapes[3].inst
    /\ tr.part = <<tr.shapes[3], tr.shapes[2], tr.shapes[1]>>

(***************************************************************************)
(* SpecBounds: Process up to the two parallel loops of lines 234-264 that  *)
(* fill bounds.  tr.bounds[k] is the set of <<i, j>> such that iteration i *)
(* has written element k - 1 for its face j; tr.biter[i] is the next face  *)
(* of iteration i.                                                         *)
(***************************************************************************)
BoundsIndexNoStart(t, i, j) == j

\* mesh_faces_start_idx[i] + j, lines 242 and 262
BoundsIndex(t, i, j) == t.fstart[i] + j

\* line 231: std::vector<bbox> bounds(numfaces)
TrAllocBounds ==
    /\ tr.pc = "count"
    /\ Len(tr.fstart) = Len(tr.part)
    /\ TrStep([tr EXCEPT !.bounds = [k \in 1 .. tr.numfaces |-> {}],
                         !.biter = [i \in DOMAIN tr.part |-> 0],
                         !.pc = "bounds_meshes"])

\* lines 239-243 and 258-263: an iteration writes the bounds of its next face
TrGetFaceBounds ==
    /\ tr.pc \in {"bounds_meshes", "bounds_instances"}
    /\ \E i \in LoopRange(tr) :
          /\ tr.biter[i] < tr.part[i].faces
          /\ LET j == tr.biter[i] IN
             TrStep([tr EXCEPT !.bounds[BoundsIndex(tr, i, j) + 1] = @ \cup {<<i, j>>},
                               !.biter[i] = j + 1])

\* the ends of the two parallel loops, lines 244 and 264
TrEndBoundsLoop ==
    /\ tr.pc \in {"bounds_meshes", "bounds_instances"}
    /\ \A i \in LoopRange(tr) : tr.biter[i] = tr.part[i].faces
    /\ TrStep([tr EXCEPT !.pc = IF tr.pc = "bounds_meshes" THEN "bounds_instances"
                                ELSE "bounded"])

BoundsNext ==
    \/ TrPartition
    \/ TrCountShape
    \/ TrAllocBounds
    \/ TrGetFaceBounds
    \/ TrEndBoundsLoop

SpecBounds == FacesInit /\ [][BoundsNext]_vars

\* C28: the start indices are the exclusive prefix sums of the face and
\* vertex counts in partitioned order, so every face index below numfaces
\* lies in the range of exactly one shape; under every interleaving of the
\* iterations of the two bounds loops no element of bounds is written twice,
\* each written element k was written by the iteration i and face j with
\* start[i] + j = k, and when both loops have ended every element has been
\* written.
C28_PrefixSums ==
    /\ \A i \in DOMAIN tr.fstart :
          /\ tr.fstart[i] = FacesBefore(tr.part, i)
          /\ tr.vstart[i] = VerticesBefore(tr.part, i)
    /\ (tr.pc # "partition" /\ Len(tr.fstart) = Len(tr.part)) =>
          /\ tr.numfaces = FacesBefore(tr.part, Len(tr.part) + 1)
          /\ tr.numvertices = VerticesBefore(tr.part, Len(tr.part) + 1)
          /\ \A g \in 0 .. (tr.numfaces - 1) :
                Cardinality({i \in DOMAIN tr.part :
                                tr.fstart[i] <= g /\ g < tr.fstart[i] + tr.part[i].faces}) = 1
    /\ \A k \in DOMAIN tr.bounds :
          /\ Cardinality(tr.bounds[k]) <= 1
          /\ \A w \in tr.bounds[k] : tr.fstart[w[1]] + w[2] = k - 1
          /\ tr.pc = "bounded" => Cardinality(tr.bounds[k]) = 1
    /\ tr.pc = "bounded" => Len(tr.bounds) = tr.numfaces

C28_Witness ==
    /\ tr.pc = "bounded"
    /\ Len(tr.part) = 2
    /\ ~tr.part[1].inst /\ tr.part[2].inst
    /\ tr.fstart = <<0, 2>>
    /\ tr.bounds = << {<<1, 0>>}, {<<1, 1>>}, {<<2, 0>>}, {<<2, 1>>} >>

\* the bounce a command of the queue belongs to: the hits buffer is cleared
\* once at the start of every bounce
BounceOf(i) == Cardinality({f \in FillHitsIdx : f < i}) - 1

\* C29: in the queue of RunBenchmark, as in that of Render, every ShadeMiss
\* launch belongs to a secondary bounce of a scene with an environment map.
C29_ShadeMissGated ==
    \A i \in DOMAIN log :
        (log[i].op = "Launch1D" /\ log[i].kernel = "ShadeMiss") =>
            /\ BounceOf(i) > 0
            /\ scene.envmapidx >= 0

\* every working-set buffer indexed by path slot holds at least n elements
WorkingSetHolds(n) == \A k \in WSKeys \ {<<"hitcount", 0>>} : rd[k].count >= n

\* C30: after any sequence of SetOutput calls, the working set holds at least
\* w*h elements of the output Render launches its kernels over (the color
\* output, when bound) and of the output FillAOVs launches over (when a
\* non-color output is bound).
C30_WorkingSetCoversLaunch ==
    /\ IsBound(GetOutput(kColor)) => WorkingSetHolds(ColorOutput.w * ColorOutput.h)
    /\ AovBound => WorkingSetHolds(AovOutput.w * AovOutput.h)

(***************************************************************************)
(* The buffer handles of GpuData across Process, Intersect and Occluded.   *)
(***************************************************************************)
\* a handle is nullptr or names a buffer that DeleteBuffer has not been given
LiveOrNull(i, h) == h = 0 \/ i.buffers[h].deleted = 0

\* C31: after any sequence of Process (failing ones included), Intersect and
\* Occluded calls, each of the handles bvh, vertices and stack is null or
\* names a buffer that has not been released, a non-null m_bvh comes with
\* live bvh and vertices buffers, and no buffer has been released twice.
C31_HandlesLive ==
    /\ LiveOrNull(isect, isect.bvh)
    /\ LiveOrNull(isect, isect.vertices)
    /\ LiveOrNull(isect, isect.stack)
    /\ isect.m_bvh # NoBvh =>
          /\ isect.bvh # 0 /\ isect.buffers[isect.bvh].deleted = 0
          /\ isect.vertices # 0 /\ isect.buffers[isect.vertices].deleted = 0
    /\ \A h \in DOMAIN isect.buffers : isect.buffers[h].deleted <= 1

\* C32: no call releases a device buffer that a kernel enqueued since the
\* last blocking Finish was given as an argument: the stack reallocation of
\* Intersect and Occluded and the releases of a rebuilding Process happen
\* only when no such kernel may be pending.
C32_NoReleaseWhilePending ==
    [][isect'.last.op \in {"Process", "Intersect", "Occluded"} =>
          isect'.last.early = {}]_vars

(***************************************************************************)
(* The pixel-index table the post-compaction kernels read.                 *)
(***************************************************************************)
RestoreIdx ==
    {i \in DOMAIN log : log[i].op = "Launch1D" /\ log[i].kernel = "RestorePixelIndices"}
PostCompactionIdx ==
    {i \in DOMAIN log : /\ log[i].op = "Launch1D"
                        /\ log[i].kernel \in {"ShadeVolume", "ShadeSurface",
                                              "GatherLightSamples"}}
\* the pixel-index argument: the first of GatherLightSamples, the fourth of
\* the shading kernels
PixelTableRead(i) ==
    IF log[i].kernel = "GatherLightSamples" THEN log[i].args[1] ELSE log[i].args[4]

\* C33: in the queue of Render and in that of RunBenchmark, every
\* ShadeVolume, ShadeSurface and GatherLightSamples launch of bounce p comes
\* after the RestorePixelIndices launch of bounce p and reads the table that
\* launch wrote, pixelindices[p & 1].
C33_ReadsRestoredTable ==
    \A i \in PostCompactionIdx :
        \E j \in RestoreIdx :
            /\ j < i
            /\ BounceOf(j) = BounceOf(i)
            /\ log[j].args[4] = <<"pixelindices", BounceOf(i) % 2>>
            /\ PixelTableRead(i) = log[j].args[4]

(***************************************************************************)
(* hitcount over the passes of one Render frame.                           *)
(***************************************************************************)
CompactsOfBounce(p) ==
    {i \in DOMAIN log : log[i].op = "Compact" /\ BounceOf(i) = p}

\* C34: within a Render frame the fill before the first pass sets hitcount
\* to N = w*h; after it only the Compact step changes hitcount, never to a
\* larger value, and every pass enqueues exactly one Compact, which names
\* hitcount as its count buffer; no other step changes hitcount.
C34_HitcountMonotone ==
    [][/\ (pc = "fillcount" /\ pc' # "fillcount") => dev'.hitcount = MaxRays
       /\ (pc = "compact" /\ pc' # "compact") =>
             /\ dev'.hitcount \in 0 .. dev.hitcount
             /\ dev.hitcount <= MaxRays
       /\ pc \notin {"fillcount", "compact"} => dev'.hitcount = dev.hitcount
       /\ (pc = "flush" /\ pc' # "flush") =>
             /\ Cardinality(CompactsOfBounce(pass)) = 1
             /\ \A i \in CompactsOfBounce(pass) : log[i].args[4] = <<"hitcount", 0>>]_vars

C34_Witness ==
    /\ pc = "flush"
    /\ pass = 1
    /\ MaxRays = 2
    /\ dev.hitcount = 1
    /\ Cardinality(CompactsOfBounce(0)) = 1
    /\ Cardinality(CompactsOfBounce(1)) = 1

(***************************************************************************)
(* The 32-bit arithmetic of Intersect and Occluded.                        *)
(***************************************************************************)
\* words * sizeof(int) = 4 * maxrays * kMaxStackSize for a 32-bit maxrays
\* (held as maxrays - 2^32 from 2^31 on, where the product exceeds every
\* 32-bit size)
IsStackSizeOf(words, maxrays) ==
    /\ maxrays >= 0
    /\ words % kMaxStackSize = 0
    /\ words \div kMaxStackSize = maxrays

\* C35: for every 32-bit maxrays given to Intersect or Occluded, the stack
\* size the call computes is 4 * maxrays * 48 bytes and its global launch
\* size is the smallest multiple of 64 >= maxrays, neither reduced modulo
\* 2^32, and the stack buffer it launches with holds at least 4 * maxrays * 48
\* bytes.
C35_NoWraparound ==
    isect.last.op \in {"Intersect", "Occluded"} =>
        /\ IsStackSizeOf(StackSize(isect.last.maxrays), isect.last.maxrays)
        /\ SmallestMultiple(isect.last.gs, kWorkGroupSize, isect.last.maxrays)
        /\ isect.last.maxrays >= 0
        /\ StackWords(isect) \div kMaxStackSize >= isect.last.maxrays

====
